---- MODULE Spec2Model ----
(***************************************************************************)
(* A model of the AI Guard Dog intelligence layer                          *)
(* (ai-guard-dog-backend/intelligence/app): the three agents (Reputation   *)
(* Sentinel, NLP Analyst, Mediator), the snapshot service and the two      *)
(* FastAPI handlers /analyze and /simulate running on one asyncio event    *)
(* loop with the blocking Gemini calls handed to executor threads.         *)
(*                                                                         *)
(* Python str values are TLA+ strings; TLC evaluates Len, \o, SubSeq, Head *)
(* and Tail on them, so the text functions below work character by         *)
(* character as the Python ones do.  Values that come out of json.loads    *)
(* are dynamically typed in Python and are tagged records here.            *)
(***************************************************************************)
EXTENDS Integers, Sequences, FiniteSets, TLC

(***************************************************************************)
(* Python str primitives                                                   *)
(***************************************************************************)
\* F(e), with e evaluated once.  TLC hands an operator its argument as an
\* unevaluated expression and, inside ENABLED, evaluates it again at every
\* use; an operator that walks a string takes the string's value first.
Bind(F(_), e) == CHOOSE y \in { F(x) : x \in {e} } : TRUE

Char(s, i) == SubSeq(s, i, i)

UPPER == "ABCDEFGHIJKLMNOPQRSTUVWXYZ"

LOWER == "abcdefghijklmnopqrstuvwxyz"

\* c.isupper() for one character
isupper(c) == \E i \in 1..Len(UPPER) : Char(UPPER, i) = c

\* c.isspace() for one character
isspace(c) == c \in {" ", "\n", "\t", "\r"}

LowerChar(c) ==
    IF isupper(c)
    THEN Char(LOWER, CHOOSE i \in 1..Len(UPPER) : Char(UPPER, i) = c)
    ELSE c

RECURSIVE lower(_)
\* s.lower(): every character mapped (the string is halved to keep the
\* recursion shallow)
lower(s) ==
    Bind(LAMBDA sv :
           IF Len(sv) = 0 THEN ""
           ELSE IF Len(sv) = 1 THEN LowerChar(sv)
           ELSE lower(SubSeq(sv, 1, Len(sv) \div 2))
                  \o lower(SubSeq(sv, Len(sv) \div 2 + 1, Len(sv))),
         s)

\* p in s
Contains(s, p) ==
    \E sv \in {s}, pv \in {p} :
        \E i \in 1..(Len(sv) - Len(pv) + 1) :
            SubSeq(sv, i, i + Len(pv) - 1) = pv

\* s.startswith(p)
startswith(s, p) ==
    \E sv \in {s} : Len(sv) >= Len(p) /\ SubSeq(sv, 1, Len(p)) = p

\* s.endswith(p)
endswith(s, p) ==
    \E sv \in {s} :
        Len(sv) >= Len(p) /\ SubSeq(sv, Len(sv) - Len(p) + 1, Len(sv)) = p

\* s[:n]
Prefix(s, n) ==
    Bind(LAMBDA sv : IF Len(sv) <= n THEN sv ELSE SubSeq(sv, 1, n), s)

RECURSIVE lstripChars(_, _)
\* s.lstrip(chars): drop leading characters that are in the set chars
lstripChars(s, chars) ==
    Bind(LAMBDA sv :
           IF sv # "" /\ Head(sv) \in chars
           THEN lstripChars(Tail(sv), chars) ELSE sv,
         s)

RECURSIVE rstripChars(_, _)
rstripChars(s, chars) ==
    Bind(LAMBDA sv :
           IF sv # "" /\ Char(sv, Len(sv)) \in chars
           THEN rstripChars(SubSeq(sv, 1, Len(sv) - 1), chars) ELSE sv,
         s)

Whitespace == {" ", "\n", "\t", "\r"}

\* s.strip()
strip(s) == rstripChars(lstripChars(s, Whitespace), Whitespace)

\* s.split('\n', 1): the text before the first newline and, when there is a
\* newline, the text after it
split_first_line(s) ==
    Bind(LAMBDA sv :
           IF Contains(sv, "\n")
           THEN LET i == CHOOSE k \in 1..Len(sv) :
                             /\ Char(sv, k) = "\n"
                             /\ \A j \in 1..(k - 1) : Char(sv, j) # "\n"
                IN  << SubSeq(sv, 1, i - 1), SubSeq(sv, i + 1, Len(sv)) >>
           ELSE << sv >>,
         s)

\* len(s.split()): the number of maximal runs of non-whitespace characters
word_count(s) ==
    Bind(LAMBDA sv :
           Cardinality({ i \in 1..Len(sv) :
                           /\ ~isspace(Char(sv, i))
                           /\ (i = 1 \/ isspace(Char(sv, i - 1))) }),
         s)

\* sum(1 for c in s if c.isupper())
upper_count(s) ==
    Bind(LAMBDA sv : Cardinality({ i \in 1..Len(sv) : isupper(Char(sv, i)) }),
         s)

Max(a, b) == IF a >= b THEN a ELSE b

Min(a, b) == IF a <= b THEN a ELSE b

Abs(a) == IF a >= 0 THEN a ELSE -a

\* Python's round() of the exact rational num/den (den > 0): the nearest
\* integer, a tie going to the even neighbour.
RoundHalfEven(num, den) ==
    LET q == num \div den
        r == num % den
    IN  IF 2 * r < den THEN q
        ELSE IF 2 * r > den THEN q + 1
        ELSE IF q % 2 = 0 THEN q ELSE q + 1

(***************************************************************************)
(* Agent 3: the Mediator (agents/mediator_agent.py)                        *)
(***************************************************************************)
\* The weights 0.4 and 0.6, in tenths.
WEIGHT_REPUTATION == 4

WEIGHT_NLP == 6

WeightDen == 10

THRESHOLD_AUTO_APPROVE == 20

THRESHOLD_NEEDS_REVIEW == 80

\* The category thresholds of calculate_risk_score.
CategoryOf(risk_score) ==
    IF risk_score < THRESHOLD_AUTO_APPROVE THEN "low"
    ELSE IF risk_score < THRESHOLD_NEEDS_REVIEW THEN "medium"
    ELSE "high"

\* A Mediator whose risk is the content risk alone
RiskOf_ContentOnly(reputation_score, nlp_safety_score) ==
    Max(0, Min(100, 100 - nlp_safety_score))

\* A Mediator that weighs the reputation 0.6 and the content 0.4
RiskOf_WeightsSwapped(reputation_score, nlp_safety_score) ==
    LET reputation_risk == 100 - reputation_score
        nlp_risk        == 100 - nlp_safety_score
        combined_num    == reputation_risk * WEIGHT_NLP
                             + nlp_risk * WEIGHT_REPUTATION
    IN  Max(0, Min(100, RoundHalfEven(combined_num, WeightDen)))

\* combined_risk = reputation_risk * 0.4 + nlp_risk * 0.6 is the rational
\* (4 * reputation_risk + 6 * nlp_risk) / 10; round() then the clamp.
RiskOf(reputation_score, nlp_safety_score) ==
    LET reputation_risk == 100 - reputation_score
        nlp_risk        == 100 - nlp_safety_score
        combined_num    == reputation_risk * WEIGHT_REPUTATION
                             + nlp_risk * WEIGHT_NLP
        risk_score      == RoundHalfEven(combined_num, WeightDen)
    IN  Max(0, Min(100, risk_score))

\* MediatorAgent.calculate_risk_score: the pair (risk_score, category)
calculate_risk_score(reputation_score, nlp_safety_score) ==
    LET risk_score == RiskOf(reputation_score, nlp_safety_score)
    IN  [risk_score |-> risk_score, category |-> CategoryOf(risk_score)]

\* A verdict whose thresholds are inclusive where the category's are not
determine_verdict_Inclusive(risk_score, category) ==
    IF risk_score <= THRESHOLD_AUTO_APPROVE THEN "AUTO_APPROVE"
    ELSE IF risk_score <= THRESHOLD_NEEDS_REVIEW THEN "NEEDS_REVIEW"
    ELSE "AUTO_REJECT"

\* MediatorAgent.determine_verdict
determine_verdict(risk_score, category) ==
    IF risk_score < THRESHOLD_AUTO_APPROVE THEN "AUTO_APPROVE"
    ELSE IF risk_score < THRESHOLD_NEEDS_REVIEW THEN "NEEDS_REVIEW"
    ELSE "AUTO_REJECT"

\* _calculate_confidence without the clamp to 0.3..0.98
ConfidenceOf_Unclamped(rep_score, nlp_score) ==
    RoundHalfEven(2 * (100 - Abs(rep_score - nlp_score))
                    + 2 * Abs(rep_score - 50) + 2 * Abs(nlp_score - 50), 4)

\* _calculate_confidence with extremity the sum, not the mean, of the two
\* distances from 50
ConfidenceOf_ExtremitySum(rep_score, nlp_score) ==
    LET num == 2 * (100 - Abs(rep_score - nlp_score))
                 + 4 * Abs(rep_score - 50) + 4 * Abs(nlp_score - 50)
    IN  RoundHalfEven(Max(30 * 4, Min(98 * 4, num)), 4)

\* _calculate_confidence returning the agreement alone
ConfidenceOf_AgreementOnly(rep_score, nlp_score) ==
    LET num == 4 * (100 - Abs(rep_score - nlp_score))
    IN  RoundHalfEven(Max(30 * 4, Min(98 * 4, num)), 4)

\* MediatorAgent._calculate_confidence, in hundredths.  agreement and
\* extremity are multiples of 1/100, their mean is num/200 with
\* num = (100 - diff) + (|rep - 50| + |nlp - 50|); the clamp to 0.3..0.98 and
\* round(confidence, 2) follow.
ConfidenceOf(rep_score, nlp_score) ==
    LET score_diff    == Abs(rep_score - nlp_score)
        agreement     == 100 - score_diff
        extremity_sum == 2 * Abs(rep_score - 50) + 2 * Abs(nlp_score - 50)
        num           == 2 * agreement + extremity_sum
        clamped_num   == Max(30 * 4, Min(98 * 4, num))
    IN  RoundHalfEven(clamped_num, 4)

(***************************************************************************)
(* Values produced by json.loads.  Python values whose type the code does  *)
(* not fix are records tagged with their Python type: t is the type, n an  *)
(* integer payload (a float carries its value in tenths), s a string       *)
(* payload, items the elements of a list.                                  *)
(***************************************************************************)
JNull == [t |-> "null", n |-> 0, s |-> "", items |-> << >>]

JInt(i) == [t |-> "int", n |-> i, s |-> "", items |-> << >>]

JFloat(tenths) == [t |-> "float", n |-> tenths, s |-> "", items |-> << >>]

JStr(str) == [t |-> "str", n |-> 0, s |-> str, items |-> << >>]

JList(elems) == [t |-> "list", n |-> 0, s |-> "", items |-> elems]

\* A JSON object: keys is the set of keys present, get the value of each.
JDict(fields) == [t |-> "dict", n |-> 0, s |-> "", items |-> << >>,
                  fields |-> fields]

\* isinstance(v, str) for every element: what pydantic's list[str] accepts
AllStr(elems) == \A i \in 1..Len(elems) : elems[i].t = "str"

\* bool(v): Python truthiness
Truthy(v) ==
    CASE v.t = "null"  -> FALSE
      [] v.t = "int"   -> v.n # 0
      [] v.t = "float" -> v.n # 0
      [] v.t = "str"   -> v.s # ""
      [] v.t = "list"  -> v.items # << >>
      [] v.t = "dict"  -> DOMAIN v.fields # {}
      [] OTHER         -> TRUE

\* d.get(key) without a default: None when the key is missing
DictGet_NoDefault(d, key, default) ==
    IF key \in DOMAIN d.fields THEN d.fields[key] ELSE JNull

\* d.get(key, default) on a JSON object
DictGet(d, key, default) ==
    IF key \in DOMAIN d.fields THEN d.fields[key] ELSE default

Digits == "0123456789"

IsDigit(c) == \E i \in 1..Len(Digits) : Char(Digits, i) = c

DigitValue(c) == (CHOOSE i \in 1..Len(Digits) : Char(Digits, i) = c) - 1

RECURSIVE DecimalValue(_)
DecimalValue(s) ==
    IF s = "" THEN 0
    ELSE 10 * DecimalValue(SubSeq(s, 1, Len(s) - 1))
           + DigitValue(Char(s, Len(s)))

\* An int() that keeps the tenths of a float instead of truncating it
PyInt_KeepFraction(v) ==
    IF v.t \in {"int", "float"} THEN [ok |-> TRUE, n |-> v.n]
    ELSE [ok |-> FALSE, n |-> 0]

\* int(v): [ok |-> TRUE, n |-> value], or ok = FALSE where Python raises
\* (TypeError for None, a list or a dict; ValueError for a str that is not
\* an optionally signed run of digits).  A float is truncated towards zero.
PyInt(v) ==
    CASE v.t = "int"   -> [ok |-> TRUE, n |-> v.n]
      [] v.t = "float" ->
            [ok |-> TRUE,
             n  |-> IF v.n >= 0 THEN v.n \div 10 ELSE -((-v.n) \div 10)]
      [] v.t = "str"   ->
            LET body   == strip(v.s)
                signed == body # "" /\ Head(body) \in {"-", "+"}
                digits == IF signed THEN Tail(body) ELSE body
            IN  IF digits # "" /\ \A i \in 1..Len(digits) : IsDigit(Char(digits, i))
                THEN [ok |-> TRUE,
                      n  |-> IF signed /\ Head(body) = "-"
                             THEN -DecimalValue(digits)
                             ELSE DecimalValue(digits)]
                ELSE [ok |-> FALSE, n |-> 0]
      [] OTHER -> [ok |-> FALSE, n |-> 0]

\* len(v) raises TypeError for a value that has no length
HasLen(v) == v.t \in {"str", "list", "dict"}

\* The elements that iterating over v yields (for x in v, list.extend(v)):
\* the items of a list, the characters of a str.  A dict, which yields its
\* keys, is not among the answers of the model.
Iterate(v) ==
    IF v.t = "list" THEN v.items
    ELSE IF v.t = "str" THEN [i \in 1..Len(v.s) |-> JStr(Char(v.s, i))]
    ELSE << >>

(***************************************************************************)
(* Agent 1: the Reputation Sentinel (agents/reputation_agent.py)           *)
(***************************************************************************)
\* evaluate_reputation comparing the suffixes without lower()
evaluate_reputation_CaseSensitive(wallet_address) ==
    IF endswith(wallet_address, "888")
    THEN [score |-> 95, history |-> "Verified Whale Account", reasoning |-> ""]
    ELSE IF endswith(wallet_address, "000")
    THEN [score |-> 10, history |-> "Suspicious New Wallet", reasoning |-> ""]
    ELSE IF endswith(wallet_address, "123") \/ endswith(wallet_address, "abc")
    THEN [score |-> 65, history |-> "Established User", reasoning |-> ""]
    ELSE [score |-> 50, history |-> "No History Found", reasoning |-> ""]

\* ReputationAgent.evaluate_reputation: the result dict (analysis_log, a
\* fixed list per branch that no caller reads, is left out).
evaluate_reputation(wallet_address) ==
    LET wallet_lower == lower(wallet_address)
    IN  IF endswith(wallet_lower, "888")
        THEN [score |-> 95, history |-> "Verified Whale Account",
              reasoning |-> "High-trust wallet with verified identity, extensive DAO participation, and established on-chain history."]
        ELSE IF endswith(wallet_lower, "000")
        THEN [score |-> 10, history |-> "Suspicious New Wallet",
              reasoning |-> "High-risk wallet with no history, suspicious funding source, and no verifiable identity."]
        ELSE IF endswith(wallet_lower, "123") \/ endswith(wallet_lower, "abc")
        THEN [score |-> 65, history |-> "Established User",
              reasoning |-> "Moderate-trust wallet with some on-chain history and limited DAO participation."]
        ELSE [score |-> 50, history |-> "No History Found",
              reasoning |-> "Neutral score due to lack of on-chain history. Additional verification recommended."]

\* The rule table of evaluate_reputation read with substring tests in place
\* of suffix tests
RuleMatches_Contains(wallet_lower, rule) ==
    IF rule = 1 THEN Contains(wallet_lower, "888")
    ELSE IF rule = 2 THEN Contains(wallet_lower, "000")
    ELSE Contains(wallet_lower, "123") \/ Contains(wallet_lower, "abc")

\* The conditions of the if / elif chain of evaluate_reputation, numbered in
\* the order of the code: 1 (line 50), 2 (line 64), 3 (line 78).
RuleMatches(wallet_lower, rule) ==
    IF rule = 1 THEN endswith(wallet_lower, "888")
    ELSE IF rule = 2 THEN endswith(wallet_lower, "000")
    ELSE endswith(wallet_lower, "123") \/ endswith(wallet_lower, "abc")

\* The score of the branch of each rule (lines 52, 66, 80) and of the else
\* branch (line 94)
RuleScore(rule) == IF rule = 1 THEN 95 ELSE IF rule = 2 THEN 10 ELSE 65

DefaultScore == 50

RuleCount == 3

\* The orders in which the three conditions can be tested
RuleOrders ==
    { o \in [1..RuleCount -> 1..RuleCount] :
        \A i, j \in 1..RuleCount : o[i] = o[j] => i = j }

CodeOrder == [i \in 1..RuleCount |-> i]

\* The score of the if / elif chain with its conditions tested in order o
ScoreInOrder(wallet_address, o) ==
    LET wallet_lower == lower(wallet_address)
    IN  IF RuleMatches(wallet_lower, o[1]) THEN RuleScore(o[1])
        ELSE IF RuleMatches(wallet_lower, o[2]) THEN RuleScore(o[2])
        ELSE IF RuleMatches(wallet_lower, o[3]) THEN RuleScore(o[3])
        ELSE DefaultScore

(***************************************************************************)
(* Agent 2: the NLP Analyst (agents/nlp_agent.py)                          *)
(***************************************************************************)
\* NLPAgent.FALLBACK_RED_FLAGS, in the dict's insertion order
FALLBACK_RED_FLAGS ==
    << [phrase |-> "guaranteed returns", weight |-> 30],
       [phrase |-> "guaranteed profit", weight |-> 30],
       [phrase |-> "100% safe", weight |-> 25],
       [phrase |-> "risk-free", weight |-> 25],
       [phrase |-> "anonymous team", weight |-> 25],
       [phrase |-> "anonymous", weight |-> 20],
       [phrase |-> "trust us", weight |-> 15],
       [phrase |-> "act now", weight |-> 10],
       [phrase |-> "urgent", weight |-> 10],
       [phrase |-> "limited time", weight |-> 10],
       [phrase |-> "no questions asked", weight |-> 25],
       [phrase |-> "easy money", weight |-> 20],
       [phrase |-> "get rich", weight |-> 20] >>

\* The phrase loop stopping at the first phrase found
PhraseScan_FirstOnly(text_lower, k) ==
    LET hits == { j \in k..Len(FALLBACK_RED_FLAGS) :
                    Contains(text_lower, FALLBACK_RED_FLAGS[j].phrase) }
    IN  IF hits = {} THEN [flags |-> << >>, penalty |-> 0]
        ELSE LET j == CHOOSE h \in hits : \A g \in hits : h <= g
             IN  [flags   |-> << JStr("Detected: '"
                                        \o FALLBACK_RED_FLAGS[j].phrase
                                        \o "'") >>,
                  penalty |-> FALLBACK_RED_FLAGS[j].weight]

RECURSIVE PhraseScan_SkipContained(_, _)
\* The phrase loop skipping a phrase that is part of a longer table phrase
\* found in the text
PhraseScan_SkipContained(text_lower, k) ==
    IF k > Len(FALLBACK_RED_FLAGS) THEN [flags |-> << >>, penalty |-> 0]
    ELSE LET e == FALLBACK_RED_FLAGS[k]
             covered ==
                \E j \in 1..Len(FALLBACK_RED_FLAGS) :
                    /\ j # k
                    /\ Contains(FALLBACK_RED_FLAGS[j].phrase, e.phrase)
                    /\ Contains(text_lower, FALLBACK_RED_FLAGS[j].phrase)
         IN  Bind(LAMBDA rest :
                    IF Contains(text_lower, e.phrase) /\ ~covered
                    THEN [flags   |-> << JStr("Detected: '" \o e.phrase
                                                \o "'") >> \o rest.flags,
                          penalty |-> e.weight + rest.penalty]
                    ELSE rest,
                  PhraseScan_SkipContained(text_lower, k + 1))

RECURSIVE PhraseScan(_, _)
\* The loop over FALLBACK_RED_FLAGS from entry k on: the flags appended and
\* the penalty added.
PhraseScan(text_lower, k) ==
    IF k > Len(FALLBACK_RED_FLAGS) THEN [flags |-> << >>, penalty |-> 0]
    ELSE LET e == FALLBACK_RED_FLAGS[k]
         IN  Bind(LAMBDA rest :
                    IF Contains(text_lower, e.phrase)
                    THEN [flags   |-> << JStr("Detected: '" \o e.phrase
                                                \o "'") >> \o rest.flags,
                          penalty |-> e.weight + rest.penalty]
                    ELSE rest,
                  PhraseScan(text_lower, k + 1))

\* caps_ratio > 0.3 with caps_ratio = upper / max(len, 1)
ExcessiveCaps(proposal_text) ==
    10 * upper_count(proposal_text) > 3 * Max(Len(proposal_text), 1)

\* NLPAgent._analyze_fallback
_analyze_fallback(proposal_text) ==
    LET scan     == Bind(LAMBDA text_lower : PhraseScan(text_lower, 1),
                         lower(proposal_text))
        short    == word_count(proposal_text) < 50
        caps     == ExcessiveCaps(proposal_text)
        detected_flags ==
            scan.flags
              \o (IF short THEN << JStr("Very short proposal (< 50 words)") >>
                  ELSE << >>)
              \o (IF caps THEN << JStr("Excessive use of capital letters") >>
                  ELSE << >>)
        penalty  == scan.penalty + (IF short THEN 15 ELSE 0)
                                 + (IF caps THEN 10 ELSE 0)
    IN  [score     |-> Max(0, Min(100, 85 - penalty)),
         red_flags |-> detected_flags,
         red_flags_t |-> "list",
         reasoning |->
            IF detected_flags = << >>
            THEN JStr("No obvious red flags detected in fallback analysis.")
            ELSE JStr("Fallback analysis detected "
                        \o ToString(Len(detected_flags))
                        \o " potential issues.")]

\* full_text of NLPAgent.evaluate_content
FullText(title, description) ==
    "Title: " \o title \o "\n\nDescription:\n" \o description

(***************************************************************************)
(* The Gemini response.  response.text is a sequence of lines; a line is   *)
(* either plain text (kind "text": a code fence, prose, a blank line) or   *)
(* one JSON document (kind "json", with the value json.loads gives for     *)
(* it).  A call that raises, or whose response.text raises, has            *)
(* raised = TRUE.                                                          *)
(***************************************************************************)
TextLine(str) == [kind |-> "text", s |-> str, doc |-> JNull]

JsonLine(doc) == [kind |-> "json", s |-> "", doc |-> doc]

Returned(lines) == [raised |-> FALSE, lines |-> lines]

Raised == [raised |-> TRUE, lines |-> << >>]

IsBlank(line) == line.kind = "text" /\ strip(line.s) = ""

RECURSIVE DropLeadingBlank(_)
DropLeadingBlank(lines) ==
    IF lines # << >> /\ IsBlank(Head(lines))
    THEN DropLeadingBlank(Tail(lines)) ELSE lines

RECURSIVE DropTrailingBlank(_)
DropTrailingBlank(lines) ==
    IF lines # << >> /\ IsBlank(lines[Len(lines)])
    THEN DropTrailingBlank(SubSeq(lines, 1, Len(lines) - 1)) ELSE lines

\* response.text.strip(), then split("\n"): surrounding blank lines go, the
\* first line loses its leading and the last its trailing whitespace
StripLines(lines) ==
    Bind(LAMBDA core :
           [i \in 1..Len(core) |->
              IF core[i].kind = "text"
              THEN TextLine(
                     LET a == IF i = 1 THEN lstripChars(core[i].s, Whitespace)
                              ELSE core[i].s
                     IN  IF i = Len(core) THEN rstripChars(a, Whitespace)
                         ELSE a)
              ELSE core[i]],
         DropTrailingBlank(DropLeadingBlank(lines)))

\* The markdown code block marker: three backquotes in the source.  A TLA+
\* string cannot hold a backquote, so a tilde stands for it in every text.
FENCE == "~~~"

IsFence(line) == line.kind = "text" /\ startswith(line.s, FENCE)

\* The removal of the markdown code block markers.  ok = FALSE is the
\* IndexError of lines[-1] on an empty list.
StripFence(lines) ==
    IF lines # << >> /\ IsFence(lines[1])
    THEN LET l1 == Tail(lines)
         IN  IF l1 = << >> THEN [ok |-> FALSE, lines |-> << >>]
             ELSE IF IsFence(l1[Len(l1)])
                  THEN [ok |-> TRUE, lines |-> SubSeq(l1, 1, Len(l1) - 1)]
                  ELSE [ok |-> TRUE, lines |-> l1]
    ELSE [ok |-> TRUE, lines |-> lines]

\* json.loads of the joined lines: one document, blank lines around it
\* allowed; anything else is a JSONDecodeError (ok = FALSE).
json_loads(lines) ==
    LET docs == { i \in 1..Len(lines) : lines[i].kind = "json" }
    IN  IF Cardinality(docs) = 1
           /\ \A i \in 1..Len(lines) : i \in docs \/ IsBlank(lines[i])
        THEN [ok |-> TRUE, doc |-> lines[CHOOSE i \in docs : TRUE].doc]
        ELSE [ok |-> FALSE, doc |-> JNull]

\* The try block of NLPAgent._analyze_with_gemini from the awaited response
\* on: ok = TRUE with the returned dict, or ok = FALSE with the exception
\* that leaves the block.
GeminiTry(response) ==
    LET failed(e) == [ok |-> FALSE, error |-> e,
                      result |-> [score |-> 0, red_flags |-> << >>,
                                  red_flags_t |-> "list",
                                  reasoning |-> JNull]]
        \* score, red_flags, reasoning of the parsed result
        normalized(result) ==
            LET int_score == PyInt(DictGet(result, "score", JInt(50)))
                red_flags == DictGet(result, "red_flags", JList(<< >>))
                reasoning == DictGet(result, "reasoning",
                                     JStr("Analysis complete."))
            IN  IF ~int_score.ok THEN failed("ValueError")
                ELSE IF ~HasLen(red_flags) THEN failed("TypeError")
                ELSE [ok |-> TRUE, error |-> "",
                      result |->
                        [score     |-> Max(0, Min(100, int_score.n)),
                         red_flags |-> Iterate(red_flags),
                         red_flags_t |-> red_flags.t,
                         reasoning |-> reasoning]]
        \* result = json.loads(response_text), then result.get
        loaded(parsed) ==
            IF ~parsed.ok THEN failed("JSONDecodeError")
            ELSE IF parsed.doc.t # "dict" THEN failed("AttributeError")
            ELSE normalized(parsed.doc)
        \* the text without its code block markers
        unfenced(fence) ==
            IF ~fence.ok THEN failed("IndexError")
            ELSE Bind(loaded, json_loads(fence.lines))
    IN  IF response.raised THEN failed("Exception")
        ELSE Bind(unfenced, StripFence(StripLines(response.lines)))

\* Except clauses that return a neutral default instead of the heuristic
GeminiExcept_Neutral(proposal_text) ==
    [score |-> 50, red_flags |-> << >>, red_flags_t |-> "list",
     reasoning |-> JStr("Analysis unavailable.")]

\* The two except clauses of _analyze_with_gemini: both return the fallback
\* analysis of the text the method was given.
GeminiExcept(proposal_text) == _analyze_fallback(proposal_text)

\* NLPAgent._analyze_with_gemini once the executor future is resolved
_analyze_with_gemini(response, proposal_text) ==
    LET attempt == GeminiTry(response)
    IN  IF attempt.ok THEN attempt.result ELSE GeminiExcept(proposal_text)

\* str(v) of a value inside an f-string
PyStr(v) ==
    CASE v.t = "str"  -> v.s
      [] v.t = "null" -> "None"
      [] v.t = "int"  -> ToString(v.n)
      [] OTHER        -> "<" \o v.t \o ">"

\* The handlers' split of the text into title and description
TitleOf(text) ==
    Prefix(strip(lstripChars(strip(split_first_line(text)[1]), {"#"})), 100)

DescriptionOf(text) ==
    LET lines == split_first_line(text)
    IN  IF Len(lines) > 1 THEN lines[2] ELSE text

(***************************************************************************)
(* MediatorAgent.mediate.  ok = FALSE is the pydantic ValidationError of   *)
(* AnalysisResult (red_flags: list[str]); a result that is None instead of *)
(* a dict has no get (AttributeError).                                     *)
(***************************************************************************)
NoValue == [state |-> "none"]

LowReputationFlag(reputation_result) ==
    JStr("Low reputation score (" \o ToString(reputation_result.score)
           \o "): " \o reputation_result.history)

\* A flag list that puts the reputation concern before the content flags
MediateFlags_ReputationFirst(reputation_result, nlp_result) ==
    (IF reputation_result.score < 30
     THEN << LowReputationFlag(reputation_result) >> ELSE << >>)
      \o nlp_result.red_flags

\* all_red_flags of mediate
MediateFlags(reputation_result, nlp_result) ==
    (IF nlp_result.red_flags # << >> THEN nlp_result.red_flags ELSE << >>)
      \o (IF reputation_result.score < 30
          THEN << LowReputationFlag(reputation_result) >> ELSE << >>)

mediate(proposal_id, reputation_result, nlp_result) ==
    LET reputation_score == reputation_result.score
        nlp_safety_score == nlp_result.score
        rc      == calculate_risk_score(reputation_score, nlp_safety_score)
        verdict == determine_verdict(rc.risk_score, rc.category)
        all_red_flags == MediateFlags(reputation_result, nlp_result)
        combined_reasoning ==
            "Reputation Score: " \o ToString(reputation_score) \o "/100 ("
              \o reputation_result.history \o ") | Content Safety Score: "
              \o ToString(nlp_safety_score) \o "/100 | Combined Risk Score: "
              \o ToString(rc.risk_score) \o "/100 | Verdict: " \o verdict
              \o (IF Truthy(nlp_result.reasoning)
                  THEN " | NLP Analysis: " \o PyStr(nlp_result.reasoning)
                  ELSE "")
    IN  IF reputation_result = NoValue \/ nlp_result = NoValue
        THEN [ok |-> FALSE, error |-> "AttributeError", value |-> NoValue]
        ELSE IF AllStr(all_red_flags)
        THEN [ok |-> TRUE, error |-> "",
              value |->
                [proposal_id   |-> proposal_id,
                 risk_score    |-> rc.risk_score,
                 risk_category |-> rc.category,
                 verdict       |-> verdict,
                 reasoning     |-> combined_reasoning,
                 red_flags     |-> all_red_flags,
                 agent_scores  |->
                    [reputation      |-> reputation_score,
                     nlp             |-> nlp_safety_score,
                     red_flags_count |-> Len(nlp_result.red_flags),
                     combined_risk   |-> rc.risk_score],
                 confidence    |-> ConfidenceOf(reputation_score,
                                                nlp_safety_score)]]
        ELSE [ok |-> FALSE, error |-> "ValidationError", value |-> NoValue]

(***************************************************************************)
(* The snapshot service (services/snapshot_service.py).  The wording of a  *)
(* summary is not modelled, only the Python types of the fields that the   *)
(* handler reads and validates.                                            *)
(***************************************************************************)
\* SnapshotService._generate_fallback: every field has the type the
\* response models expect.
_generate_fallback(proposal_id) ==
    [proposal_id       |-> proposal_id,
     executive_summary |-> JStr("fallback summary"),
     key_heuristics    |-> JDict([timeline |-> JStr("Not specified")]),
     deliverables      |-> JList(<< >>),
     generated_by      |-> "fallback-heuristics"]

\* v[:n] raises TypeError unless v is a sequence type
CanSlice(v) == v.t \in {"list", "str"}

SliceTo(v, n) ==
    IF v.t = "list"
    THEN JList(IF Len(v.items) <= n THEN v.items ELSE SubSeq(v.items, 1, n))
    ELSE JStr(Prefix(v.s, n))

\* The try block of SnapshotService._generate_with_gemini from the awaited
\* response on
SnapshotTry(response, proposal_id) ==
    LET failed(e) == [ok |-> FALSE, error |-> e,
                      result |-> _generate_fallback(proposal_id)]
        \* the snapshot dict built from the parsed result
        snapshot(result) ==
            LET deliverables == DictGet(result, "deliverables", JList(<< >>))
                concerns     == DictGet(result, "concerns", JList(<< >>))
            IN  IF ~CanSlice(deliverables) \/ ~CanSlice(concerns)
                THEN failed("TypeError")
                ELSE [ok |-> TRUE, error |-> "",
                      result |->
                        [proposal_id       |-> proposal_id,
                         executive_summary |->
                            DictGet(result, "executive_summary",
                                    JStr("Summary not available.")),
                         key_heuristics    |->
                            DictGet(result, "key_heuristics", JDict(<< >>)),
                         deliverables      |-> SliceTo(deliverables, 5),
                         generated_by      |-> "gemini-1.5-flash"]]
        loaded(parsed) ==
            IF ~parsed.ok THEN failed("JSONDecodeError")
            ELSE IF parsed.doc.t # "dict" THEN failed("AttributeError")
            ELSE snapshot(parsed.doc)
        unfenced(fence) ==
            IF ~fence.ok THEN failed("IndexError")
            ELSE Bind(loaded, json_loads(fence.lines))
    IN  IF response.raised THEN failed("Exception")
        ELSE Bind(unfenced, StripFence(StripLines(response.lines)))

\* SnapshotService._generate_with_gemini once the executor future is
\* resolved: both except clauses return the fallback snapshot.
_generate_with_gemini(response, proposal_id) ==
    LET attempt == SnapshotTry(response, proposal_id)
    IN  IF attempt.ok THEN attempt.result ELSE _generate_fallback(proposal_id)

(***************************************************************************)
(* The handlers of main.py, between their suspension points                *)
(***************************************************************************)
\* An except clause that reports the error next to a score
HandlerExcept_Partial(e) ==
    [status |-> 500, body |-> [detail |-> e, risk_score |-> 0]]

\* The responses a caller can get: the returned model (HTTP 200) and the
\* HTTPException(status_code=500, detail=str(e)) of the except clause that
\* closes both handlers.
Ok200(body) == [status |-> 200, body |-> body]

HandlerExcept(e) == [status |-> 500, body |-> [detail |-> e]]

Failed(e) == [ok |-> FALSE, error |-> e, value |-> NoValue]

\* agent_alerts of analyze_proposal
AgentAlerts(agent_1_result, agent_2_result) ==
    (IF agent_1_result.score < 30
     THEN << "Low reputation score (" \o ToString(agent_1_result.score)
               \o "): " \o agent_1_result.history >>
     ELSE << >>)
      \o (IF agent_2_result.score < 50
          THEN << "Content safety concerns (score: "
                    \o ToString(agent_2_result.score) \o ")" >>
          ELSE << >>)
      \o [i \in 1..Len(agent_2_result.red_flags) |->
            PyStr(agent_2_result.red_flags[i])]

\* The try block of analyze_proposal from the returned snapshot_data to the
\* return statement: the response model, or the exception that leaves the
\* block: the AttributeError of .get on a key_heuristics that is no dict,
\* the pydantic ValidationError of a str field given another type.
AnalyzeTail(req, agent_1_result, agent_2_result, mediation_result, snapshot_data) ==
    LET key_heuristics == snapshot_data.key_heuristics
    IN  IF key_heuristics.t # "dict" THEN Failed("AttributeError")
        ELSE
        LET timeline == DictGet(key_heuristics, "timeline",
                                JStr("Not specified"))
            snapshot_valid ==
                /\ snapshot_data.executive_summary.t = "str"
                /\ snapshot_data.deliverables.t = "list"
                /\ AllStr(snapshot_data.deliverables.items)
                /\ timeline.t = "str"
            response_valid ==
                /\ agent_2_result.reasoning.t = "str"
                /\ AllStr(mediation_result.red_flags)
        IN  IF ~snapshot_valid \/ ~response_valid
            THEN Failed("ValidationError")
            ELSE [ok |-> TRUE, error |-> "",
                  value |->
                    [proposal_id          |-> req.proposal_id,
                     agent_1_score        |-> agent_1_result.score,
                     agent_2_score        |-> agent_2_result.score,
                     agent_3_score        |-> mediation_result.risk_score,
                     composite_risk_score |-> mediation_result.risk_score,
                     agent_1_reasoning    |-> agent_1_result.reasoning,
                     agent_2_reasoning    |-> agent_2_result.reasoning.s,
                     agent_3_reasoning    |-> mediation_result.reasoning,
                     red_flags            |-> mediation_result.red_flags,
                     snapshot |->
                       [executive_summary |-> snapshot_data.executive_summary.s,
                        deliverables      |-> snapshot_data.deliverables.items,
                        timeline          |-> timeline.s,
                        budget_breakdown  |-> key_heuristics,
                        risk_profile      |->
                           AgentAlerts(agent_1_result, agent_2_result)]]]

\* A classification that passes the verdict on without renaming it
ClassificationOf_Verbatim(verdict) == verdict

\* classification of simulate_proposal
ClassificationOf(verdict) ==
    IF verdict = "AUTO_APPROVE" THEN "LIKELY_APPROVED"
    ELSE IF verdict = "AUTO_REJECT" THEN "LIKELY_REJECTED"
    ELSE "NEEDS_REVIEW"

\* suggestions of simulate_proposal (the leading emoji of each left out)
SuggestionsOf(draft_text, nlp_result, risk_score) ==
    LET low == lower(draft_text)
        top == IF Len(nlp_result.red_flags) <= 3 THEN nlp_result.red_flags
               ELSE SubSeq(nlp_result.red_flags, 1, 3)
    IN  (IF word_count(draft_text) < 100
         THEN << "Add more detail to your proposal (aim for 200+ words)" >>
         ELSE << >>)
          \o (IF ~Contains(low, "budget")
              THEN << "Include a budget breakdown section" >> ELSE << >>)
          \o (IF ~Contains(low, "timeline") /\ ~Contains(low, "schedule")
              THEN << "Add a timeline or schedule for deliverables" >>
              ELSE << >>)
          \o (IF ~Contains(low, "team") /\ ~Contains(low, "contact")
              THEN << "Include team information or contact details" >>
              ELSE << >>)
          \o (IF ~Contains(low, "deliverable") /\ ~Contains(low, "outcome")
              THEN << "Clearly list expected deliverables and outcomes" >>
              ELSE << >>)
          \o [i \in 1..Len(top) |-> "Review: " \o PyStr(top[i])]
          \o (IF Truthy(nlp_result.reasoning) /\ risk_score > 30
              THEN << "AI Note: " \o PyStr(nlp_result.reasoning) >>
              ELSE << >>)

\* A simulate_proposal that assumes a trusted author (reputation 95)
SimulateTail_TrustedAuthor(draft_text, nlp_result) ==
    LET rc      == calculate_risk_score(95, nlp_result.score)
        verdict == determine_verdict(rc.risk_score, rc.category)
    IN  IF nlp_result.red_flags_t # "list" \/ ~AllStr(nlp_result.red_flags)
        THEN Failed("ValidationError")
        ELSE [ok |-> TRUE, error |-> "",
              value |->
                [success_probability |-> Max(0, Min(100, 100 - rc.risk_score)),
                 risk_score     |-> rc.risk_score,
                 classification |-> ClassificationOf(verdict),
                 suggestions    |-> SuggestionsOf(draft_text, nlp_result,
                                                  rc.risk_score),
                 red_flags      |-> nlp_result.red_flags]]

\* The try block of simulate_proposal from the returned nlp_result to the
\* return statement: the response model (success_probability in
\* hundredths), or the pydantic ValidationError of SimulateResponse
\* (red_flags: list[str]) that leaves the block.
SimulateTail(draft_text, nlp_result) ==
    LET rc      == calculate_risk_score(50, nlp_result.score)
        success_probability == Max(0, Min(100, 100 - rc.risk_score))
        verdict == determine_verdict(rc.risk_score, rc.category)
    IN  IF nlp_result.red_flags_t # "list" \/ ~AllStr(nlp_result.red_flags)
        THEN Failed("ValidationError")
        ELSE [ok |-> TRUE, error |-> "",
              value |->
                [success_probability |-> success_probability,
                 risk_score     |-> rc.risk_score,
                 classification |-> ClassificationOf(verdict),
                 suggestions    |-> SuggestionsOf(draft_text, nlp_result,
                                                  rc.risk_score),
                 red_flags      |-> nlp_result.red_flags]]

(***************************************************************************)
(* Inputs: request texts, wallet addresses and the behaviours of the two   *)
(* Gemini models                                                           *)
(***************************************************************************)
TextClean ==
    "# Q1 Marketing Budget\n\nThis proposal requests 10,000 MON for a community marketing campaign with a timeline and a budget."

TextScam == "URGENT ACT NOW\nGUARANTEED RETURNS 100% SAFE TRUST US"

TextAnon == "anonymous team needs funding"

TextLong ==
    "Grants Program Renewal\nThe grants committee asks the DAO to renew the developer grants program for two more quarters. The budget is 50,000 USDC paid in monthly tranches. The team will publish a public report after each tranche and the timeline, the deliverables and the contact details of every grantee are listed on the forum so that the members can review each outcome before the next vote."

Texts == {TextClean, TextScam, TextAnon, TextLong}

Wallets ==
    {"0xWhale888", "0xBad000", "0x742d35Cc6634C0532925a3b844Bc9e7595f5b123",
     "0xDEADBEEFABC", "0x5A1e"}

ClassifyDoc(score, red_flags, reasoning) ==
    JDict([score |-> score, red_flags |-> red_flags, reasoning |-> reasoning])

RespPlain ==
    Returned(<< JsonLine(ClassifyDoc(JInt(90), JList(<< >>),
                                     JStr("Well structured proposal."))) >>)

RespFenced ==
    Returned(<< TextLine("~~~json"),
                JsonLine(ClassifyDoc(JInt(15),
                           JList(<< JStr("Unrealistic return promises") >>),
                           JStr("Likely scam."))),
                TextLine("~~~") >>)

RespOpenFence ==
    Returned(<< TextLine("  ~~~json"),
                JsonLine(ClassifyDoc(JInt(70), JList(<< JStr("Missing timeline") >>),
                                     JStr("Some gaps."))),
                TextLine("") >>)

RespProse == Returned(<< TextLine("I cannot analyze this proposal.") >>)

RespProseThenFence ==
    Returned(<< TextLine("Here is my analysis:"), TextLine("~~~json"),
                JsonLine(ClassifyDoc(JInt(80), JList(<< >>), JStr("Fine."))),
                TextLine("~~~") >>)

RespFenceOnly == Returned(<< TextLine("~~~") >>)

RespEmpty == Returned(<< >>)

RespList == Returned(<< JsonLine(JList(<< JInt(1) >>)) >>)

RespScoreWord ==
    Returned(<< JsonLine(ClassifyDoc(JStr("high"), JList(<< >>), JStr("ok"))) >>)

RespScoreNull ==
    Returned(<< JsonLine(ClassifyDoc(JNull, JList(<< >>), JStr("ok"))) >>)

RespScoreOver ==
    Returned(<< JsonLine(ClassifyDoc(JInt(150), JList(<< >>), JStr("ok"))) >>)

RespScoreUnder ==
    Returned(<< JsonLine(ClassifyDoc(JInt(-20), JList(<< >>), JStr("bad"))) >>)

RespScoreFloat ==
    Returned(<< JsonLine(ClassifyDoc(JFloat(859), JList(<< >>), JStr("ok"))) >>)

RespScoreStr ==
    Returned(<< JsonLine(ClassifyDoc(JStr(" 85"), JList(<< >>), JStr("ok"))) >>)

RespNoScore ==
    Returned(<< JsonLine(JDict([red_flags |-> JList(<< JStr("Vague promises") >>),
                                reasoning |-> JStr("No score given.")])) >>)

RespNoFlags ==
    Returned(<< JsonLine(JDict([score |-> JInt(88),
                                reasoning |-> JStr("Nothing found.")])) >>)

RespFlagsNull ==
    Returned(<< JsonLine(ClassifyDoc(JInt(60), JNull, JStr("ok"))) >>)

RespFlagsStr ==
    Returned(<< JsonLine(ClassifyDoc(JInt(60), JStr("none"), JStr("ok"))) >>)

RespFlagsNonStr ==
    Returned(<< JsonLine(ClassifyDoc(JInt(80), JList(<< JNull >>), JStr("ok"))) >>)

RespReasoningNull ==
    Returned(<< JsonLine(ClassifyDoc(JInt(75), JList(<< >>), JNull)) >>)

RespScoreZero ==
    Returned(<< JsonLine(ClassifyDoc(JInt(0),
                           JList(<< JStr("Guaranteed returns"), JStr("Urgency"),
                                    JStr("Anonymous team"), JStr("No budget") >>),
                           JStr("Scam."))) >>)

\* What self.model.generate_content(prompt) of the NLP agent can do
ClassifyResponses ==
    {Raised, RespPlain, RespFenced, RespOpenFence, RespProse,
     RespProseThenFence, RespFenceOnly, RespEmpty, RespList, RespScoreWord,
     RespScoreNull, RespScoreOver, RespScoreUnder, RespScoreFloat,
     RespScoreStr, RespNoScore, RespNoFlags, RespFlagsNull, RespFlagsStr,
     RespFlagsNonStr, RespReasoningNull, RespScoreZero}

SnapOk ==
    Returned(<< TextLine("~~~json"),
                JsonLine(JDict([executive_summary |-> JStr("Asks for funds."),
                                key_heuristics |->
                                   JDict([timeline |-> JStr("Q1")]),
                                deliverables |->
                                   JList(<< JStr("Campaign report") >>)])),
                TextLine("~~~") >>)

SnapProse == Returned(<< TextLine("No summary.") >>)

SnapEmptyDict == Returned(<< JsonLine(JDict(<< >>)) >>)

SnapHeuristicsStr ==
    Returned(<< JsonLine(JDict([executive_summary |-> JStr("Asks for funds."),
                                key_heuristics |-> JStr("none")])) >>)

SnapSummaryNull ==
    Returned(<< JsonLine(JDict([executive_summary |-> JNull])) >>)

SnapDeliverablesStr ==
    Returned(<< JsonLine(JDict([executive_summary |-> JStr("Asks for funds."),
                                deliverables |-> JStr("a report")])) >>)

SnapDeliverablesNull ==
    Returned(<< JsonLine(JDict([executive_summary |-> JStr("Asks for funds."),
                                deliverables |-> JNull])) >>)

\* What self.model.generate_content(prompt) of the snapshot service can do
SnapshotResponses ==
    {Raised, SnapOk, SnapProse, SnapEmptyDict, SnapHeuristicsStr,
     SnapSummaryNull, SnapDeliverablesStr, SnapDeliverablesNull}

AnalyzeRequest(proposal_id, proposal_text, wallet_address) ==
    [kind |-> "analyze", proposal_id |-> proposal_id, text |-> proposal_text,
     wallet_address |-> wallet_address]

SimulateRequest(draft_text) ==
    [kind |-> "simulate", proposal_id |-> "", text |-> draft_text,
     wallet_address |-> ""]

NoRequest == [kind |-> "none", proposal_id |-> "", text |-> "",
              wallet_address |-> ""]

\* The number of requests the process serves at the same time
NumRequests == 2

Requests == 1..NumRequests

(***************************************************************************)
(* The state of the process                                                *)
(***************************************************************************)
VARIABLES
    nlp_model,       \* NLPAgent.model of the singleton: "configured" or "none"
    snapshot_model,  \* SnapshotService.model of the singleton
    request,         \* r -> the request a handler coroutine was called with
    pc,              \* r -> where the handler coroutine is suspended
    frame,           \* r -> the handler's locals
    task1,           \* r -> the evaluate_reputation task of asyncio.gather
    content,         \* r -> the evaluate_content coroutine
    nlp_future,      \* r -> the executor future of the classification call
    snap_future,     \* r -> the executor future of the summarizer call
    response,        \* r -> what the caller received
    calls,           \* r -> how often each collaborator was invoked
    sent,            \* r -> how many results the caller was given
    fault,           \* r -> the exception that left the handler's try block
    unit             \* a direct call of the Mediator's functions

vars == << nlp_model, snapshot_model, request, pc, frame, task1, content,
           nlp_future, snap_future, response, calls, sent, fault, unit >>

NoFrame == [title |-> "", description |-> "", agent_1_result |-> NoValue,
            agent_2_result |-> NoValue, mediation_result |-> NoValue]

NoTask == [state |-> "none", result |-> NoValue]

NoContent == [state |-> "none", proposal_text |-> "", result |-> NoValue,
              path |-> "none"]

NoFuture == [state |-> "none", response |-> Raised]

NoCalls == [reputation |-> 0, classify |-> 0, summarize |-> 0]

UnitIdle == [state |-> "idle", trust |-> 0, safety |-> 0, risk_score |-> 0,
             category |-> "", verdict |-> "", confidence |-> 0]

\* No request in flight; the two module-level singletons are constructed
\* with or without a Gemini model (GOOGLE_API_KEY set or not, configure
\* failing or not).
InitProcess ==
    /\ nlp_model \in {"configured", "none"}
    /\ snapshot_model \in {"configured", "none"}
    /\ request = [r \in Requests |-> NoRequest]
    /\ pc = [r \in Requests |-> "idle"]
    /\ frame = [r \in Requests |-> NoFrame]
    /\ task1 = [r \in Requests |-> NoTask]
    /\ content = [r \in Requests |-> NoContent]
    /\ nlp_future = [r \in Requests |-> NoFuture]
    /\ snap_future = [r \in Requests |-> NoFuture]
    /\ response = [r \in Requests |-> NoValue]
    /\ calls = [r \in Requests |-> NoCalls]
    /\ sent = [r \in Requests |-> 0]
    /\ fault = [r \in Requests |-> ""]

Init == InitProcess /\ unit = UnitIdle

(***************************************************************************)
(* NLPAgent.evaluate_content                                               *)
(***************************************************************************)
\* evaluate_content up to its first suspension: with a model the prompt is
\* built and generate_content handed to the executor (the coroutine awaits
\* the future); without one the fallback analysis is returned at once.
EvaluateContentBegin(r, title, description) ==
    LET full_text == FullText(title, description)
    IN  IF nlp_model = "configured"
        THEN /\ content' = [content EXCEPT ![r] =
                    [state |-> "awaiting", proposal_text |-> full_text,
                     result |-> NoValue, path |-> "none"]]
             /\ nlp_future' = [nlp_future EXCEPT ![r] =
                    [state |-> "running", response |-> Raised]]
             /\ calls' = [calls EXCEPT ![r].classify = @ + 1]
             /\ UNCHANGED nlp_model
        ELSE /\ content' = [content EXCEPT ![r] =
                    [state |-> "done", proposal_text |-> full_text,
                     result |-> _analyze_fallback(full_text),
                     path |-> "fallback"]]
             /\ UNCHANGED << nlp_future, calls, nlp_model >>

\* The try block of _analyze_with_gemini ran to its return statement
GeminiReturn(r) ==
    /\ content' = [content EXCEPT ![r] =
            [state |-> "done", proposal_text |-> content[r].proposal_text,
             result |-> GeminiTry(nlp_future[r].response).result,
             path |-> "model"]]
    /\ UNCHANGED << nlp_future, calls, nlp_model >>

\* An except clause that sends the prompt a second time before it gives up
GeminiFallback_Retry(r) ==
    IF calls[r].classify < 2
    THEN /\ nlp_future' = [nlp_future EXCEPT ![r] =
                [state |-> "running", response |-> Raised]]
         /\ calls' = [calls EXCEPT ![r].classify = @ + 1]
         /\ UNCHANGED << content, nlp_model >>
    ELSE /\ content' = [content EXCEPT ![r] =
                [state |-> "done", proposal_text |-> content[r].proposal_text,
                 result |-> GeminiExcept(content[r].proposal_text),
                 path |-> "fallback"]]
         /\ UNCHANGED << nlp_future, calls, nlp_model >>

\* An except clause that also switches the shared agent to its heuristic
GeminiFallback_DisableModel(r) ==
    /\ content' = [content EXCEPT ![r] =
            [state |-> "done", proposal_text |-> content[r].proposal_text,
             result |-> GeminiExcept(content[r].proposal_text),
             path |-> "fallback"]]
    /\ nlp_model' = "none"
    /\ UNCHANGED << nlp_future, calls >>

\* An except clause of _analyze_with_gemini ran: the fallback analysis of
\* proposal_text is returned; no second call, the model stays configured.
GeminiFallback(r) ==
    /\ content' = [content EXCEPT ![r] =
            [state |-> "done", proposal_text |-> content[r].proposal_text,
             result |-> GeminiExcept(content[r].proposal_text),
             path |-> "fallback"]]
    /\ UNCHANGED << nlp_future, calls, nlp_model >>

\* _analyze_with_gemini resumed with the resolved future
EvaluateContentResume(r) ==
    IF GeminiTry(nlp_future[r].response).ok
    THEN GeminiReturn(r)
    ELSE GeminiFallback(r)

\* The executor thread: generate_content returns a response or raises
GenerateContentReturns(r, resp) ==
    /\ nlp_future[r].state = "running"
    /\ nlp_future' = [nlp_future EXCEPT ![r] =
            [state |-> "resolved", response |-> resp]]
    /\ UNCHANGED << nlp_model, snapshot_model, request, pc, frame, task1,
                    content, snap_future, response, calls, sent, fault, unit >>

\* The executor thread: generate_content blocks for good (no timeout is
\* passed to it and none is put around the await)
GenerateContentHangs(r) ==
    /\ nlp_future[r].state = "running"
    /\ nlp_future' = [nlp_future EXCEPT ![r].state = "hung"]
    /\ UNCHANGED << nlp_model, snapshot_model, request, pc, frame, task1,
                    content, snap_future, response, calls, sent, fault, unit >>

(***************************************************************************)
(* The handlers                                                            *)
(***************************************************************************)
\* The handler ends: its try block returned the response model, or the
\* except clause turns the exception into the HTTP 500.
Deliver(r, attempt) ==
    /\ response' = [response EXCEPT ![r] =
            IF attempt.ok THEN Ok200(attempt.value)
            ELSE HandlerExcept(attempt.error)]
    /\ fault' = [fault EXCEPT ![r] = attempt.error]
    /\ sent' = [sent EXCEPT ![r] = @ + 1]
    /\ pc' = [pc EXCEPT ![r] = "done"]

\* analyze_proposal up to "await asyncio.gather(...)": the text is split and
\* the two agent coroutines become tasks.
AnalyzeBegin(r, req) ==
    /\ pc[r] = "idle"
    /\ req.kind = "analyze"
    /\ request' = [request EXCEPT ![r] = req]
    /\ frame' = [frame EXCEPT ![r] =
            [NoFrame EXCEPT !.title = TitleOf(req.text),
                            !.description = DescriptionOf(req.text)]]
    /\ task1' = [task1 EXCEPT ![r] = [state |-> "ready", result |-> NoValue]]
    /\ content' = [content EXCEPT ![r] = [NoContent EXCEPT !.state = "ready"]]
    /\ pc' = [pc EXCEPT ![r] = "gather"]
    /\ UNCHANGED << nlp_model, snapshot_model, nlp_future, snap_future,
                    response, calls, sent, fault, unit >>

\* An evaluate_reputation task on an event loop that a pending
\* generate_content call keeps busy
Task1Run_LoopBlocked(r) ==
    /\ task1[r].state = "ready"
    /\ \A q \in Requests : nlp_future[q].state \notin {"running", "hung"}
    /\ task1' = [task1 EXCEPT ![r] =
            [state |-> "done",
             result |-> evaluate_reputation(request[r].wallet_address)]]
    /\ calls' = [calls EXCEPT ![r].reputation = @ + 1]
    /\ UNCHANGED << nlp_model, snapshot_model, request, pc, frame, content,
                    nlp_future, snap_future, response, sent, fault, unit >>

\* The first task of the gather: evaluate_reputation runs to its end
Task1Run(r) ==
    /\ task1[r].state = "ready"
    /\ task1' = [task1 EXCEPT ![r] =
            [state |-> "done",
             result |-> evaluate_reputation(request[r].wallet_address)]]
    /\ calls' = [calls EXCEPT ![r].reputation = @ + 1]
    /\ UNCHANGED << nlp_model, snapshot_model, request, pc, frame, content,
                    nlp_future, snap_future, response, sent, fault, unit >>

\* The second task of the gather: evaluate_content runs to its first await
Task2Run(r) ==
    /\ content[r].state = "ready"
    /\ EvaluateContentBegin(r, frame[r].title, frame[r].description)
    /\ UNCHANGED << snapshot_model, request, pc, frame, task1, snap_future,
                    response, sent, fault, unit >>

\* The second task resumes when its future is resolved
Task2Resume(r) ==
    /\ request[r].kind = "analyze"
    /\ content[r].state = "awaiting"
    /\ nlp_future[r].state = "resolved"
    /\ EvaluateContentResume(r)
    /\ UNCHANGED << snapshot_model, request, pc, frame, task1, snap_future,
                    response, sent, fault, unit >>

\* A gather that hands out the results of the neighbouring request
GatherResults_Other(r) ==
    << task1[(r % NumRequests) + 1].result, content[r].result >>

\* asyncio.gather is done when both tasks are
GatherDone(r) == task1[r].state = "done" /\ content[r].state = "done"

\* and gives the tasks' results in the order of its arguments
GatherResults(r) == << task1[r].result, content[r].result >>

\* analyze_proposal from the gather to "await generate_snapshot": mediate
\* runs without suspending; with a snapshot model the summarizer call goes
\* to the executor, without one the fallback snapshot is built and the
\* handler runs to its end.
AnalyzeAfterGather(r) ==
    /\ pc[r] = "gather"
    /\ GatherDone(r)
    /\ LET results == GatherResults(r)
           m == mediate(request[r].proposal_id, results[1], results[2])
           held == [frame[r] EXCEPT !.agent_1_result = results[1],
                                    !.agent_2_result = results[2],
                                    !.mediation_result = m.value]
       IN  /\ frame' = [frame EXCEPT ![r] = held]
           /\ IF ~m.ok
              THEN /\ Deliver(r, Failed(m.error))
                   /\ UNCHANGED << snap_future, calls >>
              ELSE IF snapshot_model = "configured"
              THEN /\ snap_future' = [snap_future EXCEPT ![r] =
                          [state |-> "running", response |-> Raised]]
                   /\ calls' = [calls EXCEPT ![r].summarize = @ + 1]
                   /\ pc' = [pc EXCEPT ![r] = "await_snapshot"]
                   /\ UNCHANGED << response, sent, fault >>
              ELSE /\ Deliver(r, AnalyzeTail(request[r], results[1],
                                  results[2], m.value,
                                  _generate_fallback(request[r].proposal_id)))
                   /\ UNCHANGED << snap_future, calls >>
    /\ UNCHANGED << nlp_model, snapshot_model, request, task1, content,
                    nlp_future, unit >>

\* The executor thread of the summarizer call
SnapshotReturns(r, resp) ==
    /\ snap_future[r].state = "running"
    /\ snap_future' = [snap_future EXCEPT ![r] =
            [state |-> "resolved", response |-> resp]]
    /\ UNCHANGED << nlp_model, snapshot_model, request, pc, frame, task1,
                    content, nlp_future, response, calls, sent, fault, unit >>

SnapshotHangs(r) ==
    /\ snap_future[r].state = "running"
    /\ snap_future' = [snap_future EXCEPT ![r].state = "hung"]
    /\ UNCHANGED << nlp_model, snapshot_model, request, pc, frame, task1,
                    content, nlp_future, response, calls, sent, fault, unit >>

\* analyze_proposal from the resolved snapshot future to its end
AnalyzeAfterSnapshot(r) ==
    /\ pc[r] = "await_snapshot"
    /\ snap_future[r].state = "resolved"
    /\ \E snapshot_data \in {_generate_with_gemini(snap_future[r].response,
                                                    request[r].proposal_id)} :
          Deliver(r, AnalyzeTail(request[r], frame[r].agent_1_result,
                     frame[r].agent_2_result, frame[r].mediation_result,
                     snapshot_data))
    /\ UNCHANGED << nlp_model, snapshot_model, request, frame, task1,
                    content, nlp_future, snap_future, calls, unit >>

\* simulate_proposal up to the await inside evaluate_content, or to its end
\* when evaluate_content returns without suspending
SimulateBegin(r, req) ==
    /\ pc[r] = "idle"
    /\ req.kind = "simulate"
    /\ request' = [request EXCEPT ![r] = req]
    /\ EvaluateContentBegin(r, TitleOf(req.text), DescriptionOf(req.text))
    /\ frame' = [frame EXCEPT ![r] =
            [NoFrame EXCEPT !.title = TitleOf(req.text),
                            !.description = DescriptionOf(req.text),
                            !.agent_2_result = content'[r].result]]
    /\ IF content'[r].state = "done"
       THEN Deliver(r, SimulateTail(req.text, content'[r].result))
       ELSE /\ pc' = [pc EXCEPT ![r] = "await_content"]
            /\ UNCHANGED << response, sent, fault >>
    /\ UNCHANGED << snapshot_model, task1, snap_future, unit >>

\* A simulate_proposal that also asks the snapshot service for a summary
SimulateResume_Summarize(r) ==
    /\ pc[r] = "await_content"
    /\ content[r].state = "awaiting"
    /\ nlp_future[r].state = "resolved"
    /\ EvaluateContentResume(r)
    /\ frame' = [frame EXCEPT ![r].agent_2_result = content'[r].result]
    /\ snap_future' = [snap_future EXCEPT ![r] =
            [state |-> "resolved", response |-> Raised]]
    /\ IF content'[r].state = "done"
       THEN Deliver(r, SimulateTail(request[r].text, content'[r].result))
       ELSE UNCHANGED << pc, response, sent, fault >>
    /\ UNCHANGED << snapshot_model, request, task1, unit >>

\* simulate_proposal from the resolved classification future to its end
SimulateResume(r) ==
    /\ pc[r] = "await_content"
    /\ content[r].state = "awaiting"
    /\ nlp_future[r].state = "resolved"
    /\ EvaluateContentResume(r)
    /\ frame' = [frame EXCEPT ![r].agent_2_result = content'[r].result]
    /\ IF content'[r].state = "done"
       THEN Deliver(r, SimulateTail(request[r].text, content'[r].result))
       ELSE UNCHANGED << pc, response, sent, fault >>
    /\ UNCHANGED << snapshot_model, request, task1, snap_future, unit >>

\* The steps of request r that do not take an input
Step(r) ==
    \/ Task1Run(r)
    \/ Task2Run(r)
    \/ Task2Resume(r)
    \/ AnalyzeAfterGather(r)
    \/ AnalyzeAfterSnapshot(r)
    \/ SimulateResume(r)
    \/ GenerateContentHangs(r)
    \/ SnapshotHangs(r)

(***************************************************************************)
(* Spec: one request at a time, over every input                           *)
(***************************************************************************)
Solo == {1}

AnalyzeRequests ==
    { AnalyzeRequest("p1", t, w) : t \in Texts, w \in Wallets }

SimulateRequests == { SimulateRequest(t) : t \in Texts }

Next ==
    \E r \in Solo :
        \/ \E req \in AnalyzeRequests : AnalyzeBegin(r, req)
        \/ \E req \in SimulateRequests : SimulateBegin(r, req)
        \/ \E resp \in ClassifyResponses : GenerateContentReturns(r, resp)
        \/ \E resp \in SnapshotResponses : SnapshotReturns(r, resp)
        \/ Step(r)

Spec == Init /\ [][Next]_vars

\* The callbacks of request r that the event loop runs once they are ready
Callback(r) ==
    \/ Task1Run(r)
    \/ Task2Run(r)
    \/ Task2Resume(r)
    \/ AnalyzeAfterGather(r)
    \/ AnalyzeAfterSnapshot(r)
    \/ SimulateResume(r)

\* The event loop runs every callback that is ready.  Nothing makes a
\* request arrive or an executor call return.
SpecFair == Init /\ [][Next]_vars /\ \A r \in Solo : WF_vars(Callback(r))

(***************************************************************************)
(* SpecConcurrent: NumRequests full evaluations in flight at once, with    *)
(* the NLP model configured and the snapshot service on its fallback       *)
(***************************************************************************)
ConcurrentRequests ==
    {AnalyzeRequest("p1", TextAnon, "0xBad000"),
     AnalyzeRequest("p2", TextAnon, "0xWhale888")}

ConcurrentResponses == {Raised, RespFenced}

InitConcurrent ==
    /\ InitProcess
    /\ nlp_model = "configured"
    /\ snapshot_model = "none"
    /\ unit = UnitIdle

NextConcurrent ==
    \E r \in Requests :
        \/ \E req \in ConcurrentRequests : AnalyzeBegin(r, req)
        \/ \E resp \in ConcurrentResponses : GenerateContentReturns(r, resp)
        \/ Task1Run(r)
        \/ Task2Run(r)
        \/ Task2Resume(r)
        \/ AnalyzeAfterGather(r)

SpecConcurrent == InitConcurrent /\ [][NextConcurrent]_vars

(***************************************************************************)
(* SpecMediator: the Mediator's functions called on every pair of scores   *)
(***************************************************************************)
MaxScore == 100

Scores == 0..MaxScore

InitMediator ==
    /\ InitProcess
    /\ nlp_model = "none"
    /\ snapshot_model = "none"
    /\ \E t \in Scores, s \in Scores :
          unit = [UnitIdle EXCEPT !.state = "called", !.trust = t,
                                  !.safety = s]

\* risk_score, category = calculate_risk_score(trust, safety)
UnitCalculateRisk ==
    /\ unit.state = "called"
    /\ LET rc == calculate_risk_score(unit.trust, unit.safety)
       IN  unit' = [unit EXCEPT !.state = "scored",
                                !.risk_score = rc.risk_score,
                                !.category = rc.category]
    /\ UNCHANGED << nlp_model, snapshot_model, request, pc, frame, task1,
                    content, nlp_future, snap_future, response, calls, sent,
                    fault >>

\* verdict = determine_verdict(risk_score, category), and the confidence
UnitDetermineVerdict ==
    /\ unit.state = "scored"
    /\ unit' = [unit EXCEPT !.state = "done",
                            !.verdict = determine_verdict(unit.risk_score,
                                                          unit.category),
                            !.confidence = ConfidenceOf(unit.trust,
                                                        unit.safety)]
    /\ UNCHANGED << nlp_model, snapshot_model, request, pc, frame, task1,
                    content, nlp_future, snap_future, response, calls, sent,
                    fault >>

NextMediator == UnitCalculateRisk \/ UnitDetermineVerdict

SpecMediator == InitMediator /\ [][NextMediator]_vars

(***************************************************************************)
(* A direct call of ReputationAgent.evaluate_reputation on a wallet        *)
(* address: any string, as the request model only asks for a str           *)
(***************************************************************************)
TokenPrefixes == {"", "0x", "0xAbC", "888", "000", "123abc", "0x742d35Cc"}

TokenSuffixes ==
    {"", "888", "000", "123", "abc", "ABC", "aBc", "Abc", "88", "00", "23",
     "bc", "8880", "0001", "1234", "abcd", "88 8", "ab c"}

Tokens == { a \o b : a \in TokenPrefixes, b \in TokenSuffixes }

InitReputation ==
    /\ InitProcess
    /\ nlp_model = "none"
    /\ snapshot_model = "none"
    /\ \E w \in Tokens :
          unit = [state |-> "called", wallet_address |-> w,
                  result |-> NoValue]

\* result = await reputation_agent.evaluate_reputation(wallet_address)
UnitEvaluateReputation ==
    /\ unit.state = "called"
    /\ unit' = [unit EXCEPT !.state = "done",
                            !.result = evaluate_reputation(unit.wallet_address)]
    /\ UNCHANGED << nlp_model, snapshot_model, request, pc, frame, task1,
                    content, nlp_future, snap_future, response, calls, sent,
                    fault >>

NextReputation == UnitEvaluateReputation

SpecReputation == InitReputation /\ [][NextReputation]_vars

(***************************************************************************)
(* Two direct calls of NLPAgent._analyze_fallback on the same text         *)
(***************************************************************************)
FallbackHeads == {"", "URGENT ", "Anonymous Team ", "GET RICH NOW "}

FallbackBodies ==
    {"guaranteed profit", "risk-free easy money", "a plain proposal",
     "ACT NOW LIMITED TIME"}

FallbackFiller ==
    " for the community. We ask the members to read the plan and the budget, to check the timeline of each deliverable, and to send their questions to the forum before the vote so that the team can answer every one of them in the open and publish the final version of the plan with the changes that the members asked for."

FallbackTails == {"", " no questions asked, trust us", FallbackFiller}

FallbackTexts ==
    { a \o b \o c : a \in FallbackHeads, b \in FallbackBodies,
                    c \in FallbackTails } \cup {""}

InitFallback ==
    /\ InitProcess
    /\ nlp_model = "none"
    /\ snapshot_model = "none"
    /\ \E t \in FallbackTexts :
          unit = [state |-> "called", text |-> t, first |-> NoValue,
                  second |-> NoValue]

\* first = nlp_agent._analyze_fallback(text)
UnitAnalyzeFallback ==
    /\ unit.state = "called"
    /\ unit' = [unit EXCEPT !.state = "once",
                            !.first = _analyze_fallback(unit.text)]
    /\ UNCHANGED << nlp_model, snapshot_model, request, pc, frame, task1,
                    content, nlp_future, snap_future, response, calls, sent,
                    fault >>

\* second = nlp_agent._analyze_fallback(text)
UnitAnalyzeFallbackAgain ==
    /\ unit.state = "once"
    /\ unit' = [unit EXCEPT !.state = "twice",
                            !.second = _analyze_fallback(unit.text)]
    /\ UNCHANGED << nlp_model, snapshot_model, request, pc, frame, task1,
                    content, nlp_future, snap_future, response, calls, sent,
                    fault >>

NextFallback == UnitAnalyzeFallback \/ UnitAnalyzeFallbackAgain

SpecFallback == InitFallback /\ [][NextFallback]_vars

(***************************************************************************)
(* A round trip: POST /simulate with a text, then, once it is answered,    *)
(* POST /analyze with the same text and a wallet that matches no rule      *)
(***************************************************************************)
NeutralRequests == { AnalyzeRequest("p1", t, "0x5A1e") : t \in Texts }

RoundTripResponses == {Raised, RespFenced, RespReasoningNull}

InitRoundTrip ==
    /\ InitProcess
    /\ snapshot_model = "none"
    /\ unit = UnitIdle

NextRoundTrip ==
    \/ \E req \in SimulateRequests : SimulateBegin(1, req)
    \/ \E req \in NeutralRequests :
          /\ pc[1] = "done"
          /\ req.text = request[1].text
          /\ AnalyzeBegin(2, req)
    \/ \E r \in {1, 2} :
          \/ \E resp \in RoundTripResponses : GenerateContentReturns(r, resp)
          \/ SimulateResume(r)
          \/ Task1Run(r)
          \/ Task2Run(r)
          \/ Task2Resume(r)
          \/ AnalyzeAfterGather(r)

SpecRoundTrip == InitRoundTrip /\ [][NextRoundTrip]_vars

(***************************************************************************)
(* Concurrent full evaluations whose classification calls run in the       *)
(* executor and may never return; the event loop resumes every coroutine   *)
(* that can run.                                                           *)
(***************************************************************************)
PendingRequests == {AnalyzeRequest("p1", TextAnon, "0xBad000")}

NextPending ==
    \E r \in Requests :
        \/ \E req \in PendingRequests : AnalyzeBegin(r, req)
        \/ GenerateContentReturns(r, RespFenced)
        \/ GenerateContentHangs(r)
        \/ Task1Run(r)
        \/ Task2Run(r)
        \/ Task2Resume(r)
        \/ AnalyzeAfterGather(r)

SpecPending ==
    /\ InitConcurrent
    /\ [][NextPending]_vars
    /\ \A r \in Requests : WF_vars(Callback(r))

(***************************************************************************)
(* The GOOD proposals of examples/test_proposals.py, posted to /analyze    *)
(* as run_tests does, with a classifier that judges the content safe.      *)
(* Each text is given by its opening lines.                                *)
(***************************************************************************)
GoodProposals ==
    {AnalyzeRequest("UNI-2026-001",
        "# Protocol Security Audit - Trail of Bits\n\n## Proposal ID: UNI-2026-001\n## Amount Requested: 150,000 USDC",
        "0x742d35Cc6634C0532925a3b844Bc9e7595f0bEb"),
     AnalyzeRequest("UNI-2026-002",
        "# Cross-Chain Bridge Integration - LayerZero Partnership\n\n## Proposal ID: UNI-2026-002\n## Amount Requested: 75,000 USDC + 25,000 UNI",
        "0x1a9C8182C09F50C8318d769245beA52c32BE35BC"),
     AnalyzeRequest("UNI-2026-003",
        "# Developer Grant - Uniswap Analytics Dashboard\n\n## Proposal ID: UNI-2026-003\n## Amount Requested: 35,000 USDC",
        "0x50Ec05ADe8280758E2077fcBC08D878D4aef79C3")}

\* Well-formed answers of the classifier, from safe (100) to scam (0)
ExampleResponses ==
    {RespPlain, RespNoFlags, RespScoreOver, RespScoreStr, RespScoreFloat,
     RespOpenFence, RespFenced, RespScoreZero}

NextExamples ==
    \E r \in Solo :
        \/ \E req \in GoodProposals : AnalyzeBegin(r, req)
        \/ \E resp \in ExampleResponses : GenerateContentReturns(r, resp)
        \/ Task1Run(r)
        \/ Task2Run(r)
        \/ Task2Resume(r)
        \/ AnalyzeAfterGather(r)

SpecExamples == InitConcurrent /\ [][NextExamples]_vars


(***************************************************************************)
(* Properties of the Mediator (SpecMediator)                               *)
(***************************************************************************)
UnitScored == unit.state \in {"scored", "done"}

\* C1: for every trust and safety score in 0..100 calculate_risk_score
\* returns the integer nearest to 0.4*(100 - trust) + 0.6*(100 - safety), a
\* value in 0..100; (95, 90) gives 8, (10, 15) gives 87, (50, 50) gives 50.
C1_RiskFormula ==
    UnitScored =>
        /\ unit.risk_score \in 0..100
        /\ Abs(10 * unit.risk_score
                 - (4 * (100 - unit.trust) + 6 * (100 - unit.safety))) < 5
        /\ (unit.trust = 95 /\ unit.safety = 90) => unit.risk_score = 8
        /\ (unit.trust = 10 /\ unit.safety = 15) => unit.risk_score = 87
        /\ (unit.trust = 50 /\ unit.safety = 50) => unit.risk_score = 50

C1_Witness ==
    /\ unit.state = "scored"
    /\ unit.trust = 10
    /\ unit.safety = 15
    /\ unit.risk_score = 87

\* The position of a category and of a verdict in their order
CategoryRank(category) ==
    CASE category = "low" -> 1 [] category = "medium" -> 2
      [] category = "high" -> 3 [] OTHER -> 0

VerdictRank(verdict) ==
    CASE verdict = "AUTO_APPROVE" -> 1 [] verdict = "NEEDS_REVIEW" -> 2
      [] verdict = "AUTO_REJECT" -> 3 [] OTHER -> 0

\* C2: category and verdict follow from the risk score alone and are paired:
\* below 20 LOW with AUTO_APPROVE, from 20 and below 80 MEDIUM with
\* NEEDS_REVIEW, from 80 HIGH with AUTO_REJECT; every risk in 0..100 has a
\* pair, and a lower risk never has a higher category or verdict.
C2_PairedThresholds ==
    unit.state = "done" =>
        /\ unit.risk_score < 20 =>
              unit.category = "low" /\ unit.verdict = "AUTO_APPROVE"
        /\ (20 <= unit.risk_score /\ unit.risk_score < 80) =>
              unit.category = "medium" /\ unit.verdict = "NEEDS_REVIEW"
        /\ unit.risk_score >= 80 =>
              unit.category = "high" /\ unit.verdict = "AUTO_REJECT"
        /\ CategoryRank(unit.category) = VerdictRank(unit.verdict)
        /\ CategoryRank(unit.category) \in 1..3
        /\ \A c \in {"low", "medium", "high"} :
              determine_verdict(unit.risk_score, c) = unit.verdict
        /\ \A below \in 0..unit.risk_score :
              /\ CategoryRank(CategoryOf(below)) <= CategoryRank(unit.category)
              /\ VerdictRank(determine_verdict(below, CategoryOf(below)))
                    <= VerdictRank(unit.verdict)

C2_Witness ==
    /\ unit.state = "done"
    /\ unit.risk_score = 20
    /\ unit.category = "medium"
    /\ unit.verdict = "NEEDS_REVIEW"

(***************************************************************************)
(* Properties of the content evaluation (Spec, SpecFair)                   *)
(***************************************************************************)
\* The responses whose text is not one JSON document, with or without the
\* code block markers
UnparseableResponses ==
    {RespProse, RespProseThenFence, RespFenceOnly, RespEmpty}

\* The responses whose score is not a number
MalformedScoreResponses == {RespScoreWord, RespScoreNull}

\* The classification call of request r failed in one of the three ways
CallFailed(r) ==
    /\ nlp_future[r].state = "resolved"
    /\ \/ nlp_future[r].response.raised
       \/ nlp_future[r].response \in UnparseableResponses
       \/ nlp_future[r].response \in MalformedScoreResponses

\* The text evaluate_content scans for request r
ScannedText(r) == FullText(TitleOf(request[r].text),
                           DescriptionOf(request[r].text))

\* C3: when the classification call raises, or its response is not JSON, or
\* its score is malformed, evaluate_content returns, and returns exactly the
\* result of the fallback heuristic on the same text.
C3_FailureGivesFallback ==
    \A r \in Requests :
        (CallFailed(r) /\ content[r].state = "done") =>
            /\ content[r].result = _analyze_fallback(ScannedText(r))
            /\ content[r].path = "fallback"

C3_Witness ==
    \E r \in Requests :
        /\ content[r].state = "done"
        /\ nlp_future[r].state = "resolved"
        /\ nlp_future[r].response = RespScoreWord
        /\ request[r].text = TextScam
        /\ content[r].result.score = 0

\* C4: if the classification call never returns, the content evaluation
\* still completes (with the fallback result), so the request does not hang.
C4_BoundedWait ==
    \A r \in Requests :
        (nlp_future[r].state = "hung") ~> (content[r].state = "done")

\* C5: every result of the content evaluator has a source field, FALLBACK
\* exactly when the fallback heuristic produced it and MODEL otherwise.
C5_SourceField ==
    \A r \in Requests :
        content[r].state = "done" =>
            /\ "source" \in DOMAIN content[r].result
            /\ content[r].result.source
                  = (IF content[r].path = "fallback" THEN "FALLBACK"
                     ELSE "MODEL")

\* C6: a content evaluation attempts at most one classification call, does
\* not retry a failed call, and attempts none when no model is configured.
C6_AtMostOneCall ==
    \A r \in Requests :
        /\ calls[r].classify <= 1
        /\ nlp_model = "none" => calls[r].classify = 0
        /\ (content[r].state = "done" /\ content[r].path = "model")
              => calls[r].classify = 1

C6_Witness ==
    \E r \in Requests :
        /\ content[r].state = "done"
        /\ content[r].path = "fallback"
        /\ nlp_future[r].state = "resolved"
        /\ nlp_future[r].response = Raised
        /\ calls[r].classify = 1

(***************************************************************************)
(* Properties of the full evaluation (SpecConcurrent, Spec)                *)
(***************************************************************************)
\* Request r is a full evaluation whose mediate step has started
MediateStarted(r) ==
    /\ request[r].kind = "analyze"
    /\ pc[r] \in {"await_snapshot", "done"}

\* C7: in a full evaluation mediate starts only after the reputation and the
\* content evaluation have both completed, and it reads exactly the results
\* these two returned for this call: no partial result, no other call's.
C7_MediateReadsOwnResults ==
    \A r \in Requests :
        MediateStarted(r) =>
            /\ task1[r].state = "done"
            /\ content[r].state = "done"
            /\ frame[r].agent_1_result = task1[r].result
            /\ frame[r].agent_2_result = content[r].result
            /\ task1[r].result
                  = evaluate_reputation(request[r].wallet_address)
            /\ content[r].proposal_text = ScannedText(r)
            /\ frame[r].mediation_result
                  = mediate(request[r].proposal_id, task1[r].result,
                            content[r].result).value

C7_Witness ==
    \E r1 \in Requests, r2 \in Requests :
        /\ r1 # r2
        /\ MediateStarted(r1)
        /\ frame[r1].mediation_result # NoValue
        /\ request[r2].kind = "analyze"
        /\ pc[r2] = "gather"
        /\ task1[r2].state = "done"
        /\ task1[r2].result # task1[r1].result

\* What the full evaluation r returns when its steps run one after the
\* other with nothing else in the process: a function of the request, of
\* the answers of the two models to this request, and of the configuration.
SequentialContent(r) ==
    IF calls[r].classify = 0 THEN _analyze_fallback(ScannedText(r))
    ELSE _analyze_with_gemini(nlp_future[r].response, ScannedText(r))

SequentialSnapshot(r) ==
    IF calls[r].summarize = 0 THEN _generate_fallback(request[r].proposal_id)
    ELSE _generate_with_gemini(snap_future[r].response,
                               request[r].proposal_id)

SequentialAttempt(r) ==
    LET agent_1_result == evaluate_reputation(request[r].wallet_address)
        agent_2_result == SequentialContent(r)
        m == mediate(request[r].proposal_id, agent_1_result, agent_2_result)
    IN  IF ~m.ok THEN Failed(m.error)
        ELSE AnalyzeTail(request[r], agent_1_result, agent_2_result,
                         m.value, SequentialSnapshot(r))

SequentialResponse(r) ==
    LET attempt == SequentialAttempt(r)
    IN  IF attempt.ok THEN Ok200(attempt.value)
        ELSE HandlerExcept(attempt.error)

\* C8: the result of a call depends neither on the order in which its two
\* evaluators run or complete nor on the calls running next to it, and no
\* step writes the state that the calls share (the agents' configuration).
C8_CallsIndependent ==
    /\ [](\A r \in Requests :
             /\ pc[r] = "done" => response[r] = SequentialResponse(r)
             /\ calls[r].classify > 0 => nlp_model = "configured"
             /\ calls[r].summarize > 0 => snapshot_model = "configured")
    /\ [][nlp_model' = nlp_model /\ snapshot_model' = snapshot_model]_vars

C8_Witness ==
    \E r1 \in Requests, r2 \in Requests :
        /\ r1 # r2
        /\ pc[r1] = "done"
        /\ request[r1].kind = "analyze"
        /\ response[r1].status = 200
        /\ calls[r1].classify = 1
        /\ pc[r2] = "gather"
        /\ content[r2].state = "awaiting"
        /\ task1[r2].state = "ready"

\* The fields of AnalyzeResponse
AnalyzeResponseFields ==
    {"proposal_id", "agent_1_score", "agent_2_score", "agent_3_score",
     "composite_risk_score", "agent_1_reasoning", "agent_2_reasoning",
     "agent_3_reasoning", "red_flags", "snapshot"}

\* C9: when a step of a full evaluation raises, the caller gets exactly one
\* HTTP 500 and no result field; a full evaluation ends with the complete
\* response or with that one error, never with a partial response.
C9_ErrorOrComplete ==
    \A r \in Requests :
        request[r].kind = "analyze" =>
            /\ sent[r] <= 1
            /\ pc[r] # "done" => (sent[r] = 0 /\ response[r] = NoValue)
            /\ pc[r] = "done" =>
                  /\ sent[r] = 1
                  /\ IF fault[r] # ""
                     THEN /\ response[r].status = 500
                          /\ DOMAIN response[r].body = {"detail"}
                     ELSE /\ response[r].status = 200
                          /\ DOMAIN response[r].body = AnalyzeResponseFields

C9_Witness ==
    \E r \in Requests :
        /\ request[r].kind = "analyze"
        /\ pc[r] = "done"
        /\ fault[r] = "AttributeError"
        /\ frame[r].mediation_result # NoValue
        /\ response[r].status = 500
        /\ sent[r] = 1

\* The fields of SimulateResponse
SimulateResponseFields ==
    {"success_probability", "risk_score", "classification", "suggestions",
     "red_flags"}

\* C10: simulate returns a structurally valid result (success probability
\* in [0, 1], risk score, classification, suggestions, flags) whatever the
\* classifier does; no error reaches the caller.
C10_SimulateAlwaysValid ==
    \A r \in Requests :
        (request[r].kind = "simulate" /\ pc[r] = "done") =>
            /\ response[r].status = 200
            /\ DOMAIN response[r].body = SimulateResponseFields
            /\ response[r].body.success_probability \in 0..100
            /\ response[r].body.risk_score \in 0..100

(***************************************************************************)
(* Properties of the summarizer's isolation (Spec)                         *)
(***************************************************************************)
\* The risk result of a response body: the three scores, the composite
\* score and the flags
RiskResult(body) ==
    [agent_1_score        |-> body.agent_1_score,
     agent_2_score        |-> body.agent_2_score,
     agent_3_score        |-> body.agent_3_score,
     composite_risk_score |-> body.composite_risk_score,
     red_flags            |-> body.red_flags]

\* What the full evaluation r answers when the summarizer is replaced by
\* the fallback snapshot
WithFallbackSnapshot(r) ==
    AnalyzeTail(request[r], frame[r].agent_1_result, frame[r].agent_2_result,
                frame[r].mediation_result,
                _generate_fallback(request[r].proposal_id))

\* C11: whatever the summarizer does (succeeds, raises, returns unusable
\* fields), a full evaluation returns its risk result, and the scores and
\* flags are the ones it returns with the fallback snapshot.
C11_SnapshotIsolated ==
    \A r \in Requests :
        (/\ request[r].kind = "analyze"
         /\ pc[r] = "done"
         /\ frame[r].mediation_result # NoValue
         /\ WithFallbackSnapshot(r).ok) =>
            /\ response[r].status = 200
            /\ RiskResult(response[r].body)
                  = RiskResult(WithFallbackSnapshot(r).value)

(***************************************************************************)
(* Properties of the Reputation Sentinel (SpecReputation)                  *)
(***************************************************************************)
\* The last three characters of a token ("" when it has fewer)
LastThree(w) == IF Len(w) >= 3 THEN SubSeq(w, Len(w) - 2, Len(w)) ELSE ""

\* "abc" in every mix of upper and lower case
AbcAnyCase == {"abc", "abC", "aBc", "aBC", "Abc", "AbC", "ABc", "ABC"}

C13_ConfidenceRange ==
    unit.state = "done" =>
        /\ unit.confidence >= 30
        /\ unit.confidence <= 98
        /\ unit.confidence # 100

C13_Witness ==
    /\ unit.state = "done"
    /\ unit.trust = 100
    /\ unit.safety = 100
    /\ unit.confidence = 98

\* C14: for trust 50 and safety 50 the confidence is low, in the region of
\* the 0.30 floor (here: within 0.10 of it).
C14_NeutralNearFloor ==
    (unit.state = "done" /\ unit.trust = 50 /\ unit.safety = 50) =>
        unit.confidence <= 40

\* C15: the confidence is 0.5 * agreement + 0.5 * extremity clamped to
\* 0.30..0.98, which in hundredths is
\* clamp((100 - |t - s| + |t - 50| + |s - 50|) / 2, 30, 98).
C15_ConfidenceFormula ==
    unit.state = "done" =>
        LET t == unit.trust
            s == unit.safety
            apart  == IF t >= s THEN t - s ELSE s - t
            t_from == IF t >= 50 THEN t - 50 ELSE 50 - t
            s_from == IF s >= 50 THEN s - 50 ELSE 50 - s
            twice  == 100 - apart + t_from + s_from
        IN  2 * unit.confidence
              = (IF twice < 60 THEN 60 ELSE IF twice > 196 THEN 196 ELSE twice)

C15_Witness ==
    /\ unit.state = "done"
    /\ unit.trust = 95
    /\ unit.safety = 90
    /\ unit.confidence = 90

\* C26: for every trust and safety score in 0..100 the confidence is at
\* least 0.50: |t - s| <= |t - 50| + |s - 50|, so the value before the clamp
\* is at least 0.50 and the lower clamp 0.30 is never what is returned.
C26_ConfidenceAtLeastHalf ==
    unit.state = "done" =>
        /\ unit.confidence >= 50
        /\ Abs(unit.trust - unit.safety)
              <= Abs(unit.trust - 50) + Abs(unit.safety - 50)
        /\ (100 - Abs(unit.trust - unit.safety))
              + Abs(unit.trust - 50) + Abs(unit.safety - 50) >= 100

C26_Witness ==
    /\ unit.state = "done"
    /\ unit.trust = 0
    /\ unit.safety = 100
    /\ unit.confidence = 50

(***************************************************************************)
(* Properties of the fallback heuristic (SpecFallback)                     *)
(***************************************************************************)
\* The phrase occurs in the text in some mix of upper and lower case
FoundIn(phrase, text) ==
    \E i \in 1..(Len(text) - Len(phrase) + 1) :
        lower(SubSeq(text, i, i + Len(phrase) - 1)) = phrase

\* The table entries whose phrase occurs in the text
MatchedEntries(text) ==
    { k \in 1..Len(FALLBACK_RED_FLAGS) :
        FoundIn(FALLBACK_RED_FLAGS[k].phrase, text) }

RECURSIVE SumWeights(_)
SumWeights(entries) ==
    IF entries = {} THEN 0
    ELSE LET k == CHOOSE e \in entries : TRUE
         IN  FALLBACK_RED_FLAGS[k].weight + SumWeights(entries \ {k})

\* C16: the fallback score is clamp(85 - P, 0, 100), P the sum of the
\* weights of the table phrases found case-insensitively, plus 15 under 50
\* words, plus 10 when more than 0.3 of the characters are uppercase; one
\* flag is recorded per matched condition; a second call on the same text
\* gives the same score and flags.
C16_FallbackScore ==
    unit.state \in {"once", "twice"} =>
        LET matched == MatchedEntries(unit.text)
            short   == IF word_count(unit.text) < 50 THEN 1 ELSE 0
            caps    == IF 10 * upper_count(unit.text) > 3 * Len(unit.text)
                       THEN 1 ELSE 0
            P       == SumWeights(matched) + 15 * short + 10 * caps
        IN  /\ unit.first.score
                  = (IF 85 - P < 0 THEN 0 ELSE IF 85 - P > 100 THEN 100
                     ELSE 85 - P)
            /\ Len(unit.first.red_flags)
                  = Cardinality(matched) + short + caps
            /\ unit.state = "twice" => unit.second = unit.first

C16_Witness ==
    /\ unit.state = "twice"
    /\ unit.text = "Anonymous Team ACT NOW LIMITED TIME no questions asked, trust us"
    /\ unit.first.score = 0
    /\ Len(unit.first.red_flags) = 7

\* The flag that the phrase loop records for table entry k
PhraseFlag(k) == JStr("Detected: '" \o FALLBACK_RED_FLAGS[k].phrase \o "'")

\* How many times flag f is in the list
FlagCount(flags, f) == Cardinality({ i \in 1..Len(flags) : flags[i] = f })

\* C30: in the fallback scan every table phrase that occurs in the text
\* gives its own flag and its own weight, also when it is part of another
\* matched phrase: a text with "anonymous team" is flagged for "anonymous
\* team" (entry 5, weight 25) and for "anonymous" (entry 6, weight 20), 45
\* in total.
C30_ContainedPhraseCounted ==
    unit.state \in {"once", "twice"} =>
        LET matched == MatchedEntries(unit.text)
            short   == IF word_count(unit.text) < 50 THEN 15 ELSE 0
            caps    == IF ExcessiveCaps(unit.text) THEN 10 ELSE 0
        IN  /\ \A k \in 1..Len(FALLBACK_RED_FLAGS) :
                  FlagCount(unit.first.red_flags, PhraseFlag(k))
                     = (IF k \in matched THEN 1 ELSE 0)
            /\ FoundIn("anonymous team", unit.text) =>
                  /\ {5, 6} \subseteq matched
                  /\ FALLBACK_RED_FLAGS[5].weight + FALLBACK_RED_FLAGS[6].weight
                        = 45
                  /\ unit.first.score =
                        Max(0, 85 - (45 + SumWeights(matched \ {5, 6})
                                        + short + caps))

C30_Witness ==
    /\ unit.state = "once"
    /\ unit.text = "Anonymous Team a plain proposal"
    /\ unit.first.score = 25
    /\ unit.first.red_flags =
          << JStr("Detected: 'anonymous team'"), JStr("Detected: 'anonymous'"),
             JStr("Very short proposal (< 50 words)") >>

(***************************************************************************)
(* Properties of simulate (SpecRoundTrip, Spec)                            *)
(***************************************************************************)
\* The simulate call and the full evaluation that followed it are both
\* answered, and the classifier, where it was called, gave both the same
\* answer
RoundTripDone ==
    /\ pc[1] = "done"
    /\ pc[2] = "done"
    /\ request[1].kind = "simulate"
    /\ request[2].kind = "analyze"
    /\ nlp_future[1] = nlp_future[2]

\* C17: simulate on a text and then the full evaluation of the same text
\* with a wallet that matches no suffix rule give the same risk score.
C17_RoundTripSameRisk ==
    RoundTripDone =>
        /\ response[1].status = 200
        /\ response[2].status = 200
        /\ response[1].body.risk_score
              = response[2].body.composite_risk_score

\* C18: in simulate the risk is the aggregation formula on trust 50 and
\* the content safety score, the success probability (in hundredths) is
\* clamp(1 - risk/100, 0, 1), and the classification renames the verdict:
\* LIKELY_APPROVED for AUTO_APPROVE, LIKELY_REJECTED for AUTO_REJECT,
\* NEEDS_REVIEW for NEEDS_REVIEW.
C18_SimulateResult ==
    \A r \in Requests :
        (request[r].kind = "simulate" /\ pc[r] = "done"
           /\ response[r].status = 200) =>
            LET body    == response[r].body
                safety  == content[r].result.score
                tenths  == 4 * (100 - 50) + 6 * (100 - safety)
                verdict == IF body.risk_score < 20 THEN "AUTO_APPROVE"
                           ELSE IF body.risk_score < 80 THEN "NEEDS_REVIEW"
                           ELSE "AUTO_REJECT"
            IN  /\ body.risk_score \in 0..100
                /\ 10 * body.risk_score - tenths \in -5..5
                /\ body.success_probability = 100 - body.risk_score
                /\ body.success_probability \in 0..100
                /\ body.classification = "LIKELY_APPROVED"
                      <=> verdict = "AUTO_APPROVE"
                /\ body.classification = "LIKELY_REJECTED"
                      <=> verdict = "AUTO_REJECT"
                /\ body.classification = "NEEDS_REVIEW"
                      <=> verdict = "NEEDS_REVIEW"

C18_Witness ==
    \E r \in Requests :
        /\ request[r].kind = "simulate"
        /\ pc[r] = "done"
        /\ response[r].status = 200
        /\ content[r].result.score = 0
        /\ response[r].body.risk_score = 80
        /\ response[r].body.success_probability = 20
        /\ response[r].body.classification = "LIKELY_REJECTED"

\* C19: a simulate call invokes the content evaluator and the Mediator's
\* functions only, never the reputation agent or the snapshot service, and
\* no step changes the state of the process (the agents' configuration).
C19_SimulateFrame ==
    /\ [](\A r \in Requests :
             request[r].kind = "simulate" =>
                /\ calls[r].reputation = 0
                /\ calls[r].summarize = 0
                /\ task1[r] = NoTask
                /\ snap_future[r] = NoFuture
                /\ frame[r].agent_1_result = NoValue
                /\ frame[r].mediation_result = NoValue)
    /\ [][(\E r \in Requests : request'[r].kind = "simulate")
            => (nlp_model' = nlp_model /\ snapshot_model' = snapshot_model)]_vars

C19_Witness ==
    \E r \in Requests :
        /\ request[r].kind = "simulate"
        /\ pc[r] = "done"
        /\ response[r].status = 200
        /\ calls[r] = [reputation |-> 0, classify |-> 1, summarize |-> 0]

(***************************************************************************)
(* Properties of the pending classification call (SpecPending)             *)
(***************************************************************************)
\* C20: while the classification call of a request is pending, or never
\* returns, the reputation evaluation of that request still completes, and
\* every request whose own call has returned is answered whatever the
\* calls of the other requests do: a pending call holds up its own request
\* only.
C20_PendingCallBlocksOnlyItself ==
    \A r \in Requests :
        /\ (nlp_future[r].state \in {"running", "hung"}
              /\ task1[r].state = "ready")
             ~> (task1[r].state = "done")
        /\ (pc[r] = "gather" /\ nlp_future[r].state = "resolved")
             ~> (pc[r] = "done")

C20_Witness ==
    \E r \in Requests, q \in Requests :
        /\ r # q
        /\ nlp_future[r].state = "hung"
        /\ pc[r] = "gather"
        /\ task1[r].state = "done"
        /\ calls[q].classify = 1
        /\ pc[q] = "done"
        /\ response[q].status = 200

(***************************************************************************)
(* Properties of the scores (Spec)                                         *)
(***************************************************************************)
\* The content evaluation of request r returned the model's answer resp
ModelAnswered(r, resp) ==
    /\ content[r].state = "done"
    /\ content[r].path = "model"
    /\ nlp_future[r].response = resp

\* C21: the trust score, the safety score of either path and the risk score
\* are integers in 0..100 in every state; an out-of-range or fractional
\* score of the model is clamped and coerced to an integer, and an answer
\* without flags gives the empty flag list.
C21_ScoresInRange ==
    \A r \in Requests :
        /\ task1[r].state = "done" => task1[r].result.score \in 0..100
        /\ content[r].state = "done" => content[r].result.score \in 0..100
        /\ frame[r].mediation_result # NoValue
              => frame[r].mediation_result.risk_score \in 0..100
        /\ (pc[r] = "done" /\ response[r].status = 200) =>
              IF request[r].kind = "simulate"
              THEN response[r].body.risk_score \in 0..100
              ELSE /\ response[r].body.agent_1_score \in 0..100
                   /\ response[r].body.agent_2_score \in 0..100
                   /\ response[r].body.composite_risk_score \in 0..100
        /\ ModelAnswered(r, RespScoreOver) => content[r].result.score = 100
        /\ ModelAnswered(r, RespScoreUnder) => content[r].result.score = 0
        /\ ModelAnswered(r, RespScoreFloat) => content[r].result.score = 85
        /\ ModelAnswered(r, RespNoFlags)
              => content[r].result.red_flags = << >>

C21_Witness ==
    \E r \in Requests :
        /\ ModelAnswered(r, RespScoreFloat)
        /\ content[r].result.score = 85
        /\ pc[r] = "done"
        /\ response[r].status = 200

(***************************************************************************)
(* Properties of the example proposals (SpecExamples)                      *)
(***************************************************************************)
\* C22: each GOOD example proposal, submitted with its wallet address and
\* judged safe by the content evaluator (safety 85 or more), gets a
\* composite risk score in its expected range 0..19.
C22_GoodExamplesApproved ==
    \A r \in Requests :
        (request[r] \in GoodProposals /\ pc[r] = "done"
           /\ content[r].result.score >= 85) =>
            /\ response[r].status = 200
            /\ response[r].body.composite_risk_score \in 0..19

(***************************************************************************)
(* SpecShortText: POST /simulate with drafts of 47 to 51 words (title and  *)
(* body together), a one-line draft and a long one, with and without a     *)
(* configured model                                                        *)
(***************************************************************************)
DraftTitle == "Community Garden Grant"

DraftBody44 ==
    "The committee asks the members to fund a shared garden behind the library for one season. The budget covers soil, seeds, tools and water, and a volunteer keeps the accounts open on the forum. A report with photos follows the harvest so that every"

DraftBodies ==
    {DraftBody44,
     DraftBody44 \o " member",
     DraftBody44 \o " member can",
     DraftBody44 \o " member can review",
     DraftBody44 \o " member can review it"}

DraftTexts ==
    { DraftTitle \o "\n" \o b : b \in DraftBodies } \cup {DraftTitle, TextLong}

DraftRequests == { SimulateRequest(t) : t \in DraftTexts }

DraftResponses ==
    {Raised, RespProse, RespEmpty, RespList, RespScoreWord, RespPlain}

NextShortText ==
    \E r \in Solo :
        \/ \E req \in DraftRequests : SimulateBegin(r, req)
        \/ \E resp \in DraftResponses : GenerateContentReturns(r, resp)
        \/ SimulateResume(r)

SpecShortText == Init /\ [][NextShortText]_vars

(***************************************************************************)
(* Properties of the short-text penalty (SpecShortText)                    *)
(***************************************************************************)
\* The words of the title and of the body given to evaluate_content
TitleBodyWords(r) ==
    word_count(frame[r].title) + word_count(frame[r].description)

ShortTextFlag == JStr("Very short proposal (< 50 words)")

HasFlag(flags, f) == \E i \in 1..Len(flags) : flags[i] = f

\* C24: on the fallback path, entered directly or after a failed model
\* call, the short-text flag and its penalty of 15 are applied exactly when
\* the title and the body together have fewer than 50 words.
C24_ShortTextPenalty ==
    \A r \in Requests :
        (content[r].state = "done" /\ content[r].path = "fallback") =>
            LET text  == content[r].proposal_text
                short == TitleBodyWords(r) < 50
            IN  /\ HasFlag(content[r].result.red_flags, ShortTextFlag) <=> short
                /\ content[r].result.score =
                      Max(0, Min(100,
                          85 - PhraseScan(lower(text), 1).penalty
                             - (IF ExcessiveCaps(text) THEN 10 ELSE 0)
                             - (IF short THEN 15 ELSE 0)))

(***************************************************************************)
(* Properties of the flag list of the aggregated verdict (Spec)            *)
(***************************************************************************)
\* C25: the flag list of an aggregated verdict is the content evaluator's
\* flags in their order, followed by exactly one low-reputation flag (with
\* the score and the label) when the trust score is below 30, and by
\* nothing otherwise.
C25_FlagAssembly ==
    \A r \in Requests :
        frame[r].mediation_result # NoValue =>
            LET flags  == frame[r].mediation_result.red_flags
                safety == frame[r].agent_2_result.red_flags
                trust  == frame[r].agent_1_result
                low    == trust.score < 30
            IN  /\ Len(flags) = Len(safety) + (IF low THEN 1 ELSE 0)
                /\ SubSeq(flags, 1, Len(safety)) = safety
                /\ low => flags[Len(flags)] =
                              JStr("Low reputation score ("
                                     \o ToString(trust.score) \o "): "
                                     \o trust.history)

C25_Witness ==
    \E r \in Requests :
        /\ request[r].kind = "analyze"
        /\ request[r].wallet_address = "0xBad000"
        /\ ModelAnswered(r, RespFenced)
        /\ pc[r] = "done"
        /\ response[r].status = 200
        /\ response[r].body.red_flags =
              << JStr("Unrealistic return promises"),
                 JStr("Low reputation score (10): Suspicious New Wallet") >>

(***************************************************************************)
(* Properties of the range of simulate (Spec)                              *)
(***************************************************************************)
\* C27: simulate fixes trust at 50, so its risk score is in 20..80 and its
\* success probability in 0.20..0.80 (hundredths here); it never answers
\* LIKELY_APPROVED, and answers LIKELY_REJECTED only when the content safety
\* score is exactly 0.
C27_SimulateRange ==
    \A r \in Requests :
        (request[r].kind = "simulate" /\ pc[r] = "done"
           /\ response[r].status = 200) =>
            /\ response[r].body.risk_score \in 20..80
            /\ response[r].body.success_probability \in 20..80
            /\ response[r].body.classification # "LIKELY_APPROVED"
            /\ response[r].body.classification = "LIKELY_REJECTED"
                  => content[r].result.score = 0

C27_Witness ==
    \E r \in Requests :
        /\ request[r].kind = "simulate"
        /\ ModelAnswered(r, RespScoreOver)
        /\ pc[r] = "done"
        /\ response[r].status = 200
        /\ content[r].result.score = 100
        /\ response[r].body.risk_score = 20
        /\ response[r].body.success_probability = 80
        /\ response[r].body.classification = "NEEDS_REVIEW"

(***************************************************************************)
(* Properties of the verdicts reachable for each trust score (Spec)        *)
(***************************************************************************)
\* C28: in a full evaluation the identity score alone restricts the
\* verdict: with trust 95 or 65 it is never AUTO_REJECT (the risk is at most
\* 62 and 74), with trust 50 or 10 it is never AUTO_APPROVE (the risk is at
\* least 20 and 36), and with trust 50 it is AUTO_REJECT only for safety 0.
C28_VerdictsByTrust ==
    \A r \in Requests :
        (request[r].kind = "analyze" /\ frame[r].mediation_result # NoValue) =>
            LET m      == frame[r].mediation_result
                trust  == frame[r].agent_1_result.score
                safety == frame[r].agent_2_result.score
            IN  /\ trust \in {95, 65, 50, 10}
                /\ trust = 95 => m.risk_score <= 62 /\ m.verdict # "AUTO_REJECT"
                /\ trust = 65 => m.risk_score <= 74 /\ m.verdict # "AUTO_REJECT"
                /\ trust = 50 => /\ m.risk_score >= 20
                                 /\ m.verdict # "AUTO_APPROVE"
                                 /\ m.verdict = "AUTO_REJECT" => safety = 0
                /\ trust = 10 => m.risk_score >= 36 /\ m.verdict # "AUTO_APPROVE"
                /\ (pc[r] = "done" /\ response[r].status = 200) =>
                      response[r].body.composite_risk_score = m.risk_score

C28_Witness ==
    \E r \in Requests :
        /\ request[r].kind = "analyze"
        /\ request[r].wallet_address = "0xWhale888"
        /\ ModelAnswered(r, RespScoreZero)
        /\ pc[r] = "done"
        /\ response[r].status = 200
        /\ response[r].body.agent_1_score = 95
        /\ response[r].body.agent_2_score = 0
        /\ response[r].body.composite_risk_score = 62
        /\ frame[r].mediation_result.verdict = "NEEDS_REVIEW"

(***************************************************************************)
(* Properties of a model answer without a score (Spec)                     *)
(***************************************************************************)
\* C29: when the model returns a parseable JSON object without a score,
\* the content evaluator stays on the model path and returns safety score
\* 50 with the model's flags and rationale; it does not fall back, unlike
\* for a score that cannot be converted.
C29_MissingScoreIsNeutral ==
    \A r \in Requests :
        /\ (content[r].state = "done" /\ nlp_future[r].state = "resolved"
               /\ nlp_future[r].response = RespNoScore) =>
              /\ content[r].path = "model"
              /\ content[r].result.score = 50
              /\ content[r].result.red_flags = << JStr("Vague promises") >>
              /\ content[r].result.reasoning = JStr("No score given.")
              /\ calls[r].classify = 1
        /\ (content[r].state = "done" /\ nlp_future[r].state = "resolved"
               /\ nlp_future[r].response = RespScoreWord) =>
              /\ content[r].path = "fallback"
              /\ content[r].result = _analyze_fallback(content[r].proposal_text)

C29_Witness ==
    \E r \in Requests :
        /\ ModelAnswered(r, RespNoScore)
        /\ content[r].result.score = 50
        /\ content[r].result.red_flags = << JStr("Vague promises") >>
        /\ pc[r] = "done"
        /\ response[r].status = 200

(***************************************************************************)
(* Properties of the rule order of the identity check (SpecReputation)     *)
(***************************************************************************)
\* The rules of evaluate_reputation that the lower-cased token matches
MatchedRules(wallet_address) ==
    { k \in 1..RuleCount : RuleMatches(lower(wallet_address), k) }

\* C23 (as amended): the trust score is that of the first matching rule in
\* the order 888, 000, 123/abc, default; every token matches at most one
\* rule, so testing the rules in any other order gives the same score.
C23_FirstMatchOrderFree ==
    unit.state = "done" =>
        /\ unit.result.score = ScoreInOrder(unit.wallet_address, CodeOrder)
        /\ Cardinality(MatchedRules(unit.wallet_address)) <= 1
        /\ \A o \in RuleOrders :
              ScoreInOrder(unit.wallet_address, o) = unit.result.score

C23_Witness ==
    /\ unit.state = "done"
    /\ unit.wallet_address = "888000"
    /\ MatchedRules(unit.wallet_address) = {2}
    /\ unit.result.score = 10

\* C23 (as stated): the rule order is significant, that is, some token
\* matches more than one rule and gets a different trust score when the
\* rules are tested in a different order.
C23_RuleOrderSignificant ==
    unit.wallet_address \in Tokens =>
        \E t \in Tokens :
            /\ Cardinality(MatchedRules(t)) > 1
            /\ \E o \in RuleOrders :
                  ScoreInOrder(t, o) # ScoreInOrder(t, CodeOrder)

====
